---- MODULE Spec2Model ----
(***************************************************************************)
(* Model of the thermocouples package: the piecewise-polynomial engine of  *)
(* core.py (ThermocoupleType), the registry of registry.py and the         *)
(* reference tables of types/type_*.py.                                    *)
(*                                                                         *)
(* Numbers.  Python evaluates every expression in binary floating point,   *)
(* rounding the result of each operation to 53 bits.  The model computes   *)
(* the same expressions, operation by operation, in decimal floating       *)
(* point: a number is a record [s, m, e] that stands for s * m * 10000^e,  *)
(* where s is the sign (-1, 0, 1), m the magnitude as a little-endian      *)
(* sequence of limbs in base 10000 and e an integer exponent, and the      *)
(* result of each operation keeps its Precision highest limbs (at least    *)
(* 4 * Precision - 3 significant digits).  Every decimal literal of the    *)
(* source is represented exactly.                                          *)
(***************************************************************************)
EXTENDS Integers, Sequences, FiniteSets, TLC

---------------------------------------------------------------------------
(* Natural numbers of arbitrary size: little-endian limbs, no high zeros. *)

Base == 10 * 1000

RECURSIVE StripHigh(_)
StripHigh(a) ==
    IF a = <<>> THEN <<>>
    ELSE IF a[Len(a)] = 0 THEN StripHigh(SubSeq(a, 1, Len(a) - 1))
    ELSE a

LimbAt(a, i) == IF i <= Len(a) THEN a[i] ELSE 0

MaxLen(a, b) == IF Len(a) >= Len(b) THEN Len(a) ELSE Len(b)

RECURSIVE AddFrom(_, _, _, _)
AddFrom(a, b, i, carry) ==
    IF i > MaxLen(a, b)
    THEN (IF carry = 0 THEN <<>> ELSE <<carry>>)
    ELSE LET x == LimbAt(a, i) + LimbAt(b, i) + carry
         IN  <<x % Base>> \o AddFrom(a, b, i + 1, x \div Base)

NatAdd(a, b) == AddFrom(a, b, 1, 0)

(* a - b for a >= b *)
RECURSIVE SubFrom(_, _, _, _)
SubFrom(a, b, i, borrow) ==
    IF i > Len(a) THEN <<>>
    ELSE LET x == a[i] - LimbAt(b, i) - borrow
         IN  IF x < 0
             THEN <<x + Base>> \o SubFrom(a, b, i + 1, 1)
             ELSE <<x>> \o SubFrom(a, b, i + 1, 0)

NatSub(a, b) == StripHigh(SubFrom(a, b, 1, 0))

(* -1, 0, 1 as a < b, a = b, a > b; compared from the highest limb down *)
RECURSIVE CmpFrom(_, _, _)
CmpFrom(a, b, i) ==
    IF i = 0 THEN 0
    ELSE IF a[i] < b[i] THEN -1
    ELSE IF a[i] > b[i] THEN 1
    ELSE CmpFrom(a, b, i - 1)

NatCmp(a, b) ==
    IF Len(a) < Len(b) THEN -1
    ELSE IF Len(a) > Len(b) THEN 1
    ELSE CmpFrom(a, b, Len(a))

(* a * k for a single limb k *)
RECURSIVE MulLimbFrom(_, _, _, _)
MulLimbFrom(a, k, i, carry) ==
    IF i > Len(a)
    THEN (IF carry = 0 THEN <<>> ELSE <<carry>>)
    ELSE LET x == a[i] * k + carry
         IN  <<x % Base>> \o MulLimbFrom(a, k, i + 1, x \div Base)

RECURSIVE MulFrom(_, _, _)
MulFrom(a, b, j) ==
    IF j > Len(b) THEN <<>>
    ELSE NatAdd(MulLimbFrom(a, b[j], 1, 0), <<0>> \o MulFrom(a, b, j + 1))

NatMul(a, b) == IF a = <<>> \/ b = <<>> THEN <<>> ELSE StripHigh(MulFrom(a, b, 1))

RECURSIVE NatOfInt(_)
NatOfInt(n) == IF n = 0 THEN <<>> ELSE <<n % Base>> \o NatOfInt(n \div Base)

---------------------------------------------------------------------------
(* Signed decimals s * m * Base^e, kept normal: at most Precision limbs,   *)
(* no low zero limb, and the number zero is [s |-> 0, m |-> <<>>, e |-> 0].*)

Precision == 6

Zero == [s |-> 0, m |-> <<>>, e |-> 0]

(* the number s * m * Base^e rounded (towards zero) to Precision limbs *)
RECURSIVE Normal(_, _, _)
Normal(s, m, e) ==
    IF m = <<>> \/ s = 0 THEN Zero
    ELSE IF Len(m) > Precision
    THEN Normal(s, SubSeq(m, Len(m) - Precision + 1, Len(m)), e + Len(m) - Precision)
    ELSE IF m[1] = 0 THEN Normal(s, Tail(m), e + 1)
    ELSE [s |-> s, m |-> m, e |-> e]

RECURSIVE Zeros(_)
Zeros(n) == IF n <= 0 THEN <<>> ELSE <<0>> \o Zeros(n - 1)

(* the magnitude of d written with exponent e <= d.e *)
MagAt(d, e) == IF d.s = 0 THEN <<>> ELSE Zeros(d.e - e) \o d.m

MinExp(a, b) ==
    IF a.s = 0 THEN b.e
    ELSE IF b.s = 0 THEN a.e
    ELSE IF a.e <= b.e THEN a.e ELSE b.e

DecNeg(a) == [a EXCEPT !.s = -a.s]

(* sa * ma + sb * mb for magnitudes at the same exponent e, c = NatCmp(ma, mb) *)
AddAligned(sa, ma, sb, mb, e, c) ==
    IF sa = sb THEN Normal(sa, NatAdd(ma, mb), e)
    ELSE IF c = 0 THEN Zero
    ELSE IF c > 0 THEN Normal(sa, NatSub(ma, mb), e)
    ELSE Normal(sb, NatSub(mb, ma), e)

AddAt(a, ma, b, mb, e) == AddAligned(a.s, ma, b.s, mb, e, NatCmp(ma, mb))

AddWith(a, b, e) == AddAt(a, MagAt(a, e), b, MagAt(b, e), e)

DecAdd(a, b) ==
    IF a.s = 0 THEN b
    ELSE IF b.s = 0 THEN a
    ELSE AddWith(a, b, MinExp(a, b))

DecSub(a, b) == DecAdd(a, DecNeg(b))

DecMul(a, b) == Normal(a.s * b.s, NatMul(a.m, b.m), a.e + b.e)

DecSign(a) == a.s

DecLe(a, b) == DecSign(DecSub(a, b)) <= 0

DecLt(a, b) == DecSign(DecSub(a, b)) < 0

DecAbs(a) == IF a.s < 0 THEN DecNeg(a) ELSE a

(* the integer n *)
Sign(n) == IF n < 0 THEN -1 ELSE IF n = 0 THEN 0 ELSE 1

Int2Dec(n) == Normal(Sign(n), NatOfInt(n * Sign(n)), 0)

(* 10^k for k in 0..3 *)
Pow10(k) == IF k = 0 THEN 1 ELSE IF k = 1 THEN 10 ELSE IF k = 2 THEN 100 ELSE 1000

(* the decimal literal n * 10^p, e.g. 630.615 is Lit(630615, -3) *)
Shift(x, q) == IF x.s = 0 THEN Zero ELSE [x EXCEPT !.e = x.e + q]

Lit(n, p) == Shift(DecMul(Int2Dec(n), Int2Dec(Pow10(p % 4))), p \div 4)

(* the source literal d.dddddddddddd e x: hi is the signed first seven     *)
(* digits, lo the next six, x the exponent; 5.904042117100e-03 is          *)
(* Coef(5904042, 117100, -3)                                               *)
Coef(hi, lo, x) == DecAdd(Lit(hi, x - 6), Lit(lo * Sign(hi), x - 12))

(* A number literal of a table is written <<n, p>> for n * 10^p, as in     *)
(* <<630615, -3>> for 630.615, or <<hi, lo, x>> for a literal of thirteen  *)
(* digits, as in <<5904042, 117100, -3>>.  Num is the number it denotes.   *)
Num(lit) == IF Len(lit) = 2 THEN Lit(lit[1], lit[2]) ELSE Coef(lit[1], lit[2], lit[3])

---------------------------------------------------------------------------
(* Python values.  A parameter that may be None is a record tagged with   *)
(* its Python type, so that None, [] and a non-empty list are distinct.    *)

None == [py |-> "None", v |-> <<>>]

List(t) == [py |-> "list", v |-> t]

NoFunction == [py |-> "None", a |-> Zero, b |-> Zero]

(* the callable lambda t: a * t + b *)
Function(a, b) == [py |-> "function", a |-> a, b |-> b]

Call(f, t) == DecAdd(DecMul(f.a, t), f.b)

(* a name imported from a module that is not part of the source tree      *)
(* (types/type_e.py, types/type_k.py): a table whose entries are not known *)
Imported == [py |-> "imported", v |-> <<>>]

ImportedFunction == [py |-> "imported", a |-> Zero, b |-> Zero]

(* bool(x) of a list-or-None and of a function-or-None; an imported table  *)
(* is taken to be a non-empty list, an imported function to be a function  *)
Truthy(x) == (x.py = "list" /\ x.v # <<>>) \/ x.py = "imported"

TruthyFn(f) == f.py \in {"function", "imported"}

(* What a call gives its caller: a returned number, a returned string, a  *)
(* returned object, or a raised exception with the fields of its message. *)
(* kind is "value", "str", "object", or the class of the exception; val is *)
(* the number returned or formatted into the message, what and name are    *)
(* the texts formatted into the message, list a list formatted into it.    *)
Outcome(kind, val, what, name, list) ==
    [kind |-> kind, val |-> val, what |-> what, name |-> name, list |-> list]

Value(v) == Outcome("value", v, "", "", <<>>)

Str(s) == Outcome("str", Zero, "", s, <<>>)

Object(cls, name) == Outcome("object", Zero, cls, name, <<>>)

NoOutcome == Outcome("none", Zero, "", "", <<>>)

(* ValueError(f"Value {x} out of range for Type {name} thermocouple") *)
OutOfRangeError(x, name) == Outcome("ValueError", x, "out of range", name, <<>>)

(* the absent quantity reported with the exception class of _select_coeffs *)
NotImplementedAsValueError(what, name) == Outcome("ValueError", Zero, what, name, <<>>)

(* NotImplementedError(f"{what} not implemented for Type {name}") *)
NotImplementedError(what, name) == Outcome("NotImplementedError", Zero, what, name, <<>>)

(* AttributeError: 'ThermocoupleType' object has no attribute '{attr}' *)
AttributeError(attr) == Outcome("AttributeError", Zero, "no attribute", attr, <<>>)

Raised(o) == o.kind \notin {"value", "str", "object", "none"}

---------------------------------------------------------------------------
(* core.py: class ThermocoupleType *)

ThermocoupleType(name, temp_to_microvolt, microvolt_to_temp, temp_to_seebeck, temp_to_dsdt, temp_to_microvolt_pos_leg, temp_to_microvolt_neg_leg, temp_to_seebeck_pos_leg, temp_to_seebeck_neg_leg, microvolt_expo_function, seebeck_expo_function, dsdt_expo_function, microvolt_neg_leg_expo_function) ==
    [ _name |-> name,
      _temp_to_microvolt |-> temp_to_microvolt,
      _microvolt_to_temp |-> microvolt_to_temp,
      _temp_to_seebeck |-> IF Truthy(temp_to_seebeck) THEN temp_to_seebeck ELSE List(<<>>),
      _temp_to_dsdt |-> IF Truthy(temp_to_dsdt) THEN temp_to_dsdt ELSE List(<<>>),
      _temp_to_microvolt_pos_leg |-> temp_to_microvolt_pos_leg,
      _temp_to_microvolt_neg_leg |-> temp_to_microvolt_neg_leg,
      _temp_to_seebeck_pos_leg |-> temp_to_seebeck_pos_leg,
      _temp_to_seebeck_neg_leg |-> temp_to_seebeck_neg_leg,
      _microvolt_expo_function |-> microvolt_expo_function,
      _seebeck_expo_function |-> seebeck_expo_function,
      _dsdt_expo_function |-> dsdt_expo_function,
      _microvolt_neg_leg_expo_function |-> microvolt_neg_leg_expo_function ]

(* an entry of a table is ((lo, hi), coeffs) *)
Lo(entry) == Num(entry[1][1])

Hi(entry) == Num(entry[1][2])

Coeffs(entry) == entry[2]

(* Contains without the test against the upper bound *)
ContainsFromLo(entry, x) == DecLe(Lo(entry), x)

(* Contains with the upper bound excluded *)
ContainsHalfOpen(entry, x) == DecLe(Lo(entry), x) /\ DecLt(x, Hi(entry))

Contains(entry, x) == DecLe(Lo(entry), x) /\ DecLe(x, Hi(entry))

(* for (lo, hi), coeffs in tables: if lo <= x <= hi: return coeffs; raise *)
RECURSIVE SelectFrom(_, _, _, _)
SelectFrom(self, x, tables, k) ==
    IF k > Len(tables)
    THEN [raised |-> TRUE, coeffs |-> <<>>, exc |-> OutOfRangeError(x, self._name)]
    ELSE IF Contains(tables[k], x)
    THEN [raised |-> FALSE, coeffs |-> Coeffs(tables[k]), exc |-> NoOutcome]
    ELSE SelectFrom(self, x, tables, k + 1)

_select_coeffs(self, x, tables) == SelectFrom(self, x, tables.v, 1)

(* x**i *)
RECURSIVE Power(_, _)
Power(x, i) == IF i = 0 THEN Int2Dec(1) ELSE DecMul(Power(x, i - 1), x)

(* sum(c * (x**i) for i, c in enumerate(coeffs)): the terms are added in   *)
(* the order of the list, from the start value 0; the k-th coefficient of  *)
(* the sequence is the coefficient of x**(k-1)                             *)
RECURSIVE SumFrom(_, _, _, _)
SumFrom(coeffs, x, k, total) ==
    IF k > Len(coeffs) THEN total
    ELSE SumFrom(coeffs, x, k + 1, DecAdd(total, DecMul(Num(coeffs[k]), Power(x, k - 1))))

(* _polyval with the coefficients taken highest power first *)
PolyvalHighestFirst(self, coeffs, x) ==
    SumFrom([k \in 1..Len(coeffs) |-> coeffs[Len(coeffs) + 1 - k]], x, 1, Zero)

_polyval(self, coeffs, x) == SumFrom(coeffs, x, 1, Zero)

(* the float literal 1e6 *)
Million == Lit(1, 6)

(* result / 1e6 *)
PerMillion(result) == DecMul(result, Lit(1, -6))

(* result += function(temp_c), if there is a function *)
Corrected(result, function, temp_c) ==
    IF TruthyFn(function) THEN DecAdd(result, Call(function, temp_c)) ELSE result

(* The rest of a method once _select_coeffs has returned or raised: the    *)
(* polynomial at x, the correction at x, then the division by 1e6 or none. *)
(* Scaled with the division by 1e6 done before the correction is added *)
ScaledThenCorrected(self, sel, x, function) ==
    IF sel.raised THEN sel.exc
    ELSE Value(Corrected(PerMillion(_polyval(self, sel.coeffs, x)), function, x))

Scaled(self, sel, x, function) ==
    IF sel.raised THEN sel.exc
    ELSE Value(PerMillion(Corrected(_polyval(self, sel.coeffs, x), function, x)))

Unscaled(self, sel, x, function) ==
    IF sel.raised THEN sel.exc
    ELSE Value(Corrected(_polyval(self, sel.coeffs, x), function, x))

temperature_to_voltage(self, temp_c) ==
    Scaled(self, _select_coeffs(self, temp_c, self._temp_to_microvolt), temp_c, self._microvolt_expo_function)

(* microvolt = v * 1e6 *)
InverseAt(self, microvolt) ==
    Unscaled(self, _select_coeffs(self, microvolt, self._microvolt_to_temp), microvolt, NoFunction)

(* voltage_to_temperature with the table looked up at the value in volts *)
VoltageToTemperatureInVolts(self, v) == InverseAt(self, v)

voltage_to_temperature(self, v) == InverseAt(self, DecMul(v, Million))

(* temperature_to_seebeck with the table tested against None only *)
TemperatureToSeebeckIfNone(self, temp_c) ==
    IF self._temp_to_seebeck.py = "None"
    THEN NotImplementedError("Seebeck coefficient", self._name)
    ELSE Unscaled(self, _select_coeffs(self, temp_c, self._temp_to_seebeck), temp_c, self._seebeck_expo_function)

temperature_to_seebeck(self, temp_c) ==
    IF ~Truthy(self._temp_to_seebeck)
    THEN NotImplementedError("Seebeck coefficient", self._name)
    ELSE Unscaled(self, _select_coeffs(self, temp_c, self._temp_to_seebeck), temp_c, self._seebeck_expo_function)

(* temperature_to_dsdt with the division by 1e6 of the voltages *)
TemperatureToDsdtScaled(self, temp_c) ==
    IF ~Truthy(self._temp_to_dsdt)
    THEN NotImplementedError("dSeebeck/dT", self._name)
    ELSE Scaled(self, _select_coeffs(self, temp_c, self._temp_to_dsdt), temp_c, self._dsdt_expo_function)

temperature_to_dsdt(self, temp_c) ==
    IF ~Truthy(self._temp_to_dsdt)
    THEN NotImplementedError("dSeebeck/dT", self._name)
    ELSE Unscaled(self, _select_coeffs(self, temp_c, self._temp_to_dsdt), temp_c, self._dsdt_expo_function)

(* temperature_to_volt_pos_leg without the division by 1e6 *)
TemperatureToVoltPosLegInMicrovolts(self, temp_c) ==
    IF ~Truthy(self._temp_to_microvolt_pos_leg)
    THEN NotImplementedError("Thermovoltage positive leg", self._name)
    ELSE Unscaled(self, _select_coeffs(self, temp_c, self._temp_to_microvolt_pos_leg), temp_c, NoFunction)

temperature_to_volt_pos_leg(self, temp_c) ==
    IF ~Truthy(self._temp_to_microvolt_pos_leg)
    THEN NotImplementedError("Thermovoltage positive leg", self._name)
    ELSE Scaled(self, _select_coeffs(self, temp_c, self._temp_to_microvolt_pos_leg), temp_c, NoFunction)

(* temperature_to_volt_neg_leg with the correction of the forward table *)
TemperatureToVoltNegLegForwardCorrected(self, temp_c) ==
    IF ~Truthy(self._temp_to_microvolt_neg_leg)
    THEN NotImplementedError("Thermovoltage negative leg", self._name)
    ELSE Scaled(self, _select_coeffs(self, temp_c, self._temp_to_microvolt_neg_leg), temp_c, self._microvolt_expo_function)

temperature_to_volt_neg_leg(self, temp_c) ==
    IF ~Truthy(self._temp_to_microvolt_neg_leg)
    THEN NotImplementedError("Thermovoltage negative leg", self._name)
    ELSE Scaled(self, _select_coeffs(self, temp_c, self._temp_to_microvolt_neg_leg), temp_c, self._microvolt_neg_leg_expo_function)

temperature_to_seebeck_pos_leg(self, temp_c) ==
    IF ~Truthy(self._temp_to_seebeck_pos_leg)
    THEN NotImplementedError("Seebeck coefficient positive leg", self._name)
    ELSE Unscaled(self, _select_coeffs(self, temp_c, self._temp_to_seebeck_pos_leg), temp_c, NoFunction)

(* temperature_to_seebeck_neg_leg with the correction of the Seebeck table *)
TemperatureToSeebeckNegLegCorrected(self, temp_c) ==
    IF ~Truthy(self._temp_to_seebeck_neg_leg)
    THEN NotImplementedError("Seebeck coefficient negative leg", self._name)
    ELSE Unscaled(self, _select_coeffs(self, temp_c, self._temp_to_seebeck_neg_leg), temp_c, self._seebeck_expo_function)

temperature_to_seebeck_neg_leg(self, temp_c) ==
    IF ~Truthy(self._temp_to_seebeck_neg_leg)
    THEN NotImplementedError("Seebeck coefficient negative leg", self._name)
    ELSE Unscaled(self, _select_coeffs(self, temp_c, self._temp_to_seebeck_neg_leg), temp_c, NoFunction)

(* AfterReference with the reference voltage subtracted *)
AfterReferenceSubtracted(self, v_measured, v_ref) ==
    IF Raised(v_ref) THEN v_ref
    ELSE voltage_to_temperature(self, DecSub(v_measured, v_ref.val))

(* v_total = v_measured + v_ref; result = self.voltage_to_temperature(v_total) *)
AfterReference(self, v_measured, v_ref) ==
    IF Raised(v_ref) THEN v_ref
    ELSE voltage_to_temperature(self, DecAdd(v_measured, v_ref.val))

(* voltage_to_temperature_with_reference that takes the reference          *)
(* temperature as a temperature in kelvin                                  *)
VoltageToTemperatureWithReferenceInKelvin(self, v_measured, t_ref) ==
    AfterReference(self, v_measured, temperature_to_voltage(self, DecAdd(t_ref, Lit(27315, -2))))

voltage_to_temperature_with_reference(self, v_measured, t_ref) ==
    AfterReference(self, v_measured, temperature_to_voltage(self, t_ref))

(* What a method calls, in the order of its statements.  An invocation is  *)
(* the name of the helper with the field of the table it is given, or the  *)
(* field of the correction function that is called.                        *)
Invocation(fn, of) == [fn |-> fn, of |-> of]

(* if self.<function>: result += self.<function>(x); function is "" in the *)
(* methods that have no correction                                         *)
CorrectionCalls(self, function) ==
    IF function # "" /\ TruthyFn(self[function]) THEN <<Invocation(function, "")>> ELSE <<>>

(* Calls with the correction function called first *)
CallsCorrectionFirst(self, x, table, function) ==
    CorrectionCalls(self, function) \o <<Invocation("_select_coeffs", table)>> \o
    (IF _select_coeffs(self, x, self[table]).raised THEN <<>> ELSE <<Invocation("_polyval", table)>>)

(* coeffs = self._select_coeffs(x, table), whose exception leaves the      *)
(* method; result = self._polyval(coeffs, x); then the correction          *)
Calls(self, x, table, function) ==
    <<Invocation("_select_coeffs", table)>> \o
    (IF _select_coeffs(self, x, self[table]).raised THEN <<>>
     ELSE <<Invocation("_polyval", table)>> \o CorrectionCalls(self, function))

(* if not self.<table>: raise NotImplementedError(...) comes first *)
OptionalCalls(self, x, table, function) ==
    IF ~Truthy(self[table]) THEN <<>> ELSE Calls(self, x, table, function)

(* v_ref = self.temperature_to_voltage(t_ref), whose exception leaves the  *)
(* method; result = self.voltage_to_temperature(v_measured + v_ref)        *)
ReferenceCalls(self, v_measured, t_ref, v_ref) ==
    Calls(self, t_ref, "_temp_to_microvolt", "_microvolt_expo_function") \o
    (IF Raised(v_ref) THEN <<>>
     ELSE Calls(self, DecMul(DecAdd(v_measured, v_ref.val), Million), "_microvolt_to_temp", ""))

(* the calls of the method op with the arguments x, and y where it has two *)
MethodCalls(op, self, x, y) ==
    CASE op = "temperature_to_voltage" -> Calls(self, x, "_temp_to_microvolt", "_microvolt_expo_function")
      [] op = "voltage_to_temperature" -> Calls(self, DecMul(x, Million), "_microvolt_to_temp", "")
      [] op = "temperature_to_seebeck" -> OptionalCalls(self, x, "_temp_to_seebeck", "_seebeck_expo_function")
      [] op = "temperature_to_dsdt" -> OptionalCalls(self, x, "_temp_to_dsdt", "_dsdt_expo_function")
      [] op = "temperature_to_volt_pos_leg" -> OptionalCalls(self, x, "_temp_to_microvolt_pos_leg", "")
      [] op = "temperature_to_volt_neg_leg" -> OptionalCalls(self, x, "_temp_to_microvolt_neg_leg", "_microvolt_neg_leg_expo_function")
      [] op = "temperature_to_seebeck_pos_leg" -> OptionalCalls(self, x, "_temp_to_seebeck_pos_leg", "")
      [] op = "temperature_to_seebeck_neg_leg" -> OptionalCalls(self, x, "_temp_to_seebeck_neg_leg", "")
      [] op = "voltage_to_temperature_with_reference" -> ReferenceCalls(self, x, y, temperature_to_voltage(self, y))

(* reading the attribute attr of an instance: the instance attributes are  *)
(* those __init__ sets; the class defines methods only, no property        *)
InstanceAttributes(self) == DOMAIN self

ClassAttributes ==
    { "temperature_to_voltage", "voltage_to_temperature", "temperature_to_seebeck",
      "temperature_to_dsdt", "temperature_to_volt_pos_leg", "temperature_to_volt_neg_leg",
      "temperature_to_seebeck_pos_leg", "temperature_to_seebeck_neg_leg",
      "voltage_to_temperature_with_reference", "_select_coeffs", "_polyval", "__init__" }

(* the attributes read here hold strings *)
getattr(self, attr) ==
    IF attr \in InstanceAttributes(self) THEN Str(self[attr])
    ELSE IF attr \in ClassAttributes THEN Object("method", attr)
    ELSE AttributeError(attr)

---------------------------------------------------------------------------
(* types/type_b.py, type_j.py, type_n.py, type_r.py, type_s.py, type_t.py: *)
(* the reference tables, literal by literal (see Num).                     *)

B_TEMP_TO_MICROVOLT ==
    <<
      << <<<<0, 0>>, <<630615, -3>>>>,
         << <<0, 0, 0>>,
            <<-2465081, 834600, -1>>,
            <<5904042, 117100, -3>>,
            <<-1325793, 163600, -6>>,
            <<1566829, 190100, -9>>,
            <<-1694452, 924000, -12>>,
            <<6299034, 709400, -16>> >> >>,
      << <<<<630615, -3>>, <<1820, 0>>>>,
         << <<-3893816, 862100, 3>>,
            <<2857174, 747000, -1>>,
            <<-8488510, 478500, -5>>,
            <<1578528, 016400, -4>>,
            <<-1683534, 486400, -7>>,
            <<1110979, 401300, -10>>,
            <<-4451543, 103300, -14>>,
            <<9897564, 082100, -18>>,
            <<-9379133, 028900, -22>> >> >>
    >>

B_MICROVOLT_TO_TEMP ==
    <<
      << <<<<291, 0>>, <<2431, 0>>>>,
         << <<9842332, 100000, 1>>,
            <<6997150, 000000, -1>>,
            <<-8476530, 400000, -4>>,
            <<1005264, 400000, -6>>,
            <<-8334595, 200000, -10>>,
            <<4550854, 200000, -13>>,
            <<-1552303, 700000, -16>>,
            <<2988675, 000000, -20>>,
            <<-2474286, 000000, -24>> >> >>,
      << <<<<2431, 0>>, <<13820, 0>>>>,
         << <<2131507, 100000, 2>>,
            <<2851050, 400000, -1>>,
            <<-5274288, 700000, -5>>,
            <<9916080, 400000, -9>>,
            <<-1296530, 300000, -12>>,
            <<1119587, 000000, -16>>,
            <<-6062519, 900000, -21>>,
            <<1866169, 600000, -25>>,
            <<-2487858, 500000, -30>> >> >>
    >>

B_TEMP_TO_SEEBECK ==
    <<
      << <<<<0, 0>>, <<630615, -3>>>>,
         << <<-2465081, 834600, -1>>,
            <<1180804, 234200, -2>>,
            <<-3977379, 490800, -6>>,
            <<6267316, 760400, -9>>,
            <<-8472264, 620000, -12>>,
            <<3779420, 845640, -15>> >> >>,
      << <<<<630615, -3>>, <<1820, 0>>>>,
         << <<2857174, 747000, -1>>,
            <<-1697702, 095700, -4>>,
            <<4735584, 049200, -4>>,
            <<-6734137, 945600, -7>>,
            <<5554897, 006500, -10>>,
            <<-2670925, 859800, -13>>,
            <<6928304, 857470, -17>>,
            <<-7503266, 423120, -21>> >> >>
    >>

B_TEMP_TO_DSDT ==
    <<
      << <<<<0, 0>>, <<630615, -3>>>>,
         << <<1180804, 234200, -2>>,
            <<-7954758, 981600, -6>>,
            <<1880195, 028120, -8>>,
            <<-3388905, 848000, -11>>,
            <<1889710, 422820, -14>> >> >>,
      << <<<<630615, -3>>, <<1820, 0>>>>,
         << <<-1697702, 095700, -4>>,
            <<9471168, 098400, -4>>,
            <<-2020241, 383680, -6>>,
            <<2221958, 802600, -9>>,
            <<-1335462, 929900, -12>>,
            <<4156982, 914482, -16>>,
            <<-5252586, 738384, -20>> >> >>
    >>

B_TEMP_TO_MICROVOLT_POS_LEG ==
    <<
      << <<<<0, 0>>, <<630615, -3>>>>,
         << <<0, 0, 0>>,
            <<4822787, 568700, 0>>,
            <<1565116, 570900, -2>>,
            <<-2223379, 788200, -5>>,
            <<2833324, 407400, -8>>,
            <<-2025894, 044700, -11>>,
            <<6148870, 509600, -15>> >> >>,
      << <<<<630615, -3>>, <<17681, -1>>>>,
         << <<-7968043, 228200, 3>>,
            <<6394111, 021300, 1>>,
            <<-1710242, 141000, -1>>,
            <<3055578, 252700, -4>>,
            <<-3210574, 449200, -7>>,
            <<2090910, 279400, -10>>,
            <<-8233582, 542600, -14>>,
            <<1782284, 151500, -17>>,
            <<-1618707, 418700, -21>> >> >>
    >>

B_TEMP_TO_MICROVOLT_NEG_LEG ==
    <<
      << <<<<0, 0>>, <<630615, -3>>>>,
         << <<0, 0, 0>>,
            <<5069295, 752200, 0>>,
            <<9747123, 532000, -3>>,
            <<-2090906, 471800, -5>>,
            <<2676641, 488300, -8>>,
            <<-1856448, 752300, -11>>,
            <<5518967, 038600, -15>> >> >>,
      << <<<<630615, -3>>, <<17681, -1>>>>,
         << <<-4074226, 366200, 3>>,
            <<3536936, 274300, 1>>,
            <<-8613910, 931500, -2>>,
            <<1477050, 236200, -4>>,
            <<-1527039, 962900, -7>>,
            <<9799308, 790500, -11>>,
            <<-3782039, 439300, -14>>,
            <<7925277, 432800, -18>>,
            <<-6807941, 157800, -22>> >> >>
    >>

B_TEMP_TO_SEEBECK_POS_LEG ==
    <<
      << <<<<0, 0>>, <<630615, -3>>>>,
         << <<4822787, 568700, 0>>,
            <<3130233, 141800, -2>>,
            <<-6670139, 364600, -5>>,
            <<1133329, 762960, -7>>,
            <<-1012947, 022350, -10>>,
            <<3689322, 305760, -14>> >> >>,
      << <<<<630615, -3>>, <<17681, -1>>>>,
         << <<6394111, 021300, 1>>,
            <<-3420484, 282000, -1>>,
            <<9166734, 758100, -4>>,
            <<-1284229, 779680, -6>>,
            <<1045455, 139700, -9>>,
            <<-4940149, 525560, -13>>,
            <<1425827, 321200, -16>>,
            <<-1294965, 934960, -20>> >> >>
    >>

B_TEMP_TO_SEEBECK_NEG_LEG ==
    <<
      << <<<<0, 0>>, <<630615, -3>>>>,
         << <<5069295, 752200, 0>>,
            <<1949424, 706400, -2>>,
            <<-6272719, 415400, -5>>,
            <<1070656, 595320, -7>>,
            <<-9282243, 761500, -11>>,
            <<3311380, 223160, -14>> >> >>,
      << <<<<630615, -3>>, <<17681, -1>>>>,
         << <<3536936, 274300, 1>>,
            <<-1722782, 186300, -1>>,
            <<4431150, 708600, -4>>,
            <<-6108159, 851600, -7>>,
            <<4899654, 395250, -10>>,
            <<-2269223, 663580, -13>>,
            <<5547694, 203960, -17>>,
            <<-5446352, 926240, -21>> >> >>
    >>

J_TEMP_TO_MICROVOLT ==
    <<
      << <<<<-210, 0>>, <<760, 0>>>>,
         << <<0, 0, 0>>,
            <<5038118, 781500, 1>>,
            <<3047583, 693000, -2>>,
            <<-8568106, 572000, -5>>,
            <<1322819, 529500, -7>>,
            <<-1705295, 833700, -10>>,
            <<2094809, 069700, -13>>,
            <<-1253839, 533600, -16>>,
            <<1563172, 569700, -20>> >> >>,
      << <<<<760, 0>>, <<1200, 0>>>>,
         << <<2964562, 568100, 5>>,
            <<-1497612, 778600, 3>>,
            <<3178710, 392400, 0>>,
            <<-3184768, 670100, -3>>,
            <<1572081, 900400, -6>>,
            <<-3069136, 905600, -10>> >> >>
    >>

J_MICROVOLT_TO_TEMP ==
    <<
      << <<<<-8095, 0>>, <<0, 0>>>>,
         << <<0, 0, 0>>,
            <<1952826, 800000, -2>>,
            <<-1228618, 500000, -6>>,
            <<-1075217, 800000, -9>>,
            <<-5908693, 300000, -13>>,
            <<-1725671, 300000, -16>>,
            <<-2813151, 300000, -20>>,
            <<-2396337, 000000, -24>>,
            <<-8382332, 100000, -29>> >> >>,
      << <<<<0, 0>>, <<42919, 0>>>>,
         << <<0, 0, 0>>,
            <<1978425, 000000, -2>>,
            <<-2001204, 000000, -7>>,
            <<1036969, 000000, -11>>,
            <<-2549687, 000000, -16>>,
            <<3585153, 000000, -21>>,
            <<-5344285, 000000, -26>>,
            <<5099890, 000000, -31>> >> >>,
      << <<<<42919, 0>>, <<69553, 0>>>>,
         << <<-3113581, 870000, 3>>,
            <<3005436, 840000, -1>>,
            <<-9947732, 300000, -6>>,
            <<1702766, 300000, -10>>,
            <<-1430334, 680000, -15>>,
            <<4738860, 840000, -21>> >> >>
    >>

J_TEMP_TO_SEEBECK ==
    <<
      << <<<<-210, 0>>, <<760, 0>>>>,
         << <<5038118, 781500, 1>>,
            <<6095167, 386000, -2>>,
            <<-2570431, 971600, -4>>,
            <<5291278, 118000, -7>>,
            <<-8526479, 168500, -10>>,
            <<1256885, 441820, -12>>,
            <<-8776837, 035200, -16>>,
            <<1250538, 055760, -19>> >> >>,
      << <<<<760, 0>>, <<1200, 0>>>>,
         << <<-1497612, 778600, 3>>,
            <<6357420, 784800, 0>>,
            <<-9554306, 010300, -3>>,
            <<6288327, 601600, -6>>,
            <<-1534568, 452800, -9>> >> >>
    >>

J_TEMP_TO_DSDT ==
    <<
      << <<<<-210, 0>>, <<760, 0>>>>,
         << <<6095167, 386000, -2>>,
            <<-5140863, 943200, -4>>,
            <<1587383, 435400, -6>>,
            <<-3410591, 667400, -9>>,
            <<6284427, 209100, -12>>,
            <<-5266102, 421120, -15>>,
            <<8753766, 390320, -19>> >> >>,
      << <<<<760, 0>>, <<1200, 0>>>>,
         << <<6357420, 784800, 0>>,
            <<-1910861, 202060, -2>>,
            <<1886498, 280480, -5>>,
            <<-6138273, 811200, -9>> >> >>
    >>

J_TEMP_TO_MICROVOLT_POS_LEG ==
    <<
      << <<<<-210, 0>>, <<760, 0>>>>,
         << <<0, 0, 0>>,
            <<1791354, 855900, 1>>,
            <<4677466, 335800, -3>>,
            <<-7122599, 299100, -5>>,
            <<1335212, 501600, -7>>,
            <<-1500896, 263900, -10>>,
            <<1551431, 962500, -13>>,
            <<-7950357, 212500, -17>>,
            <<2429790, 391000, -21>> >> >>
    >>

J_TEMP_TO_MICROVOLT_NEG_LEG ==
    <<
      << <<<<-210, 0>>, <<760, 0>>>>,
         << <<0, 0, 0>>,
            <<3246763, 925600, 1>>,
            <<2579837, 059400, -2>>,
            <<-1445507, 273000, -5>>,
            <<-1239297, 209300, -6>>,
            <<-2043995, 698000, -11>>,
            <<5433771, 071800, -14>>,
            <<-4588038, 123500, -17>>,
            <<1320193, 530600, -20>> >> >>
    >>

J_TEMP_TO_SEEBECK_POS_LEG ==
    <<
      << <<<<-210, 0>>, <<760, 0>>>>,
         << <<1791354, 855900, 1>>,
            <<9354932, 671600, -3>>,
            <<-2136779, 789730, -4>>,
            <<5340850, 006400, -7>>,
            <<-7504481, 319500, -10>>,
            <<9308591, 775000, -13>>,
            <<-5565250, 048750, -16>>,
            <<1943832, 312800, -19>> >> >>
    >>

J_TEMP_TO_SEEBECK_NEG_LEG ==
    <<
      << <<<<-210, 0>>, <<760, 0>>>>,
         << <<3246763, 925600, 1>>,
            <<5159674, 118800, -2>>,
            <<-4336521, 819000, -5>>,
            <<-4957188, 837200, -6>>,
            <<-1021997, 849000, -10>>,
            <<3260262, 643080, -13>>,
            <<-3210626, 686450, -16>>,
            <<1188174, 177540, -19>> >> >>
    >>

N_TEMP_TO_MICROVOLT ==
    <<
      << <<<<-270, 0>>, <<0, 0>>>>,
         << <<0, 0, 0>>,
            <<2615910, 596200, 1>>,
            <<1095748, 422800, -2>>,
            <<-9384111, 155400, -5>>,
            <<-4641203, 975900, -6>>,
            <<-2630335, 771600, -7>>,
            <<-2265343, 800300, -9>>,
            <<-7608930, 079100, -12>>,
            <<-9341966, 783500, -15>> >> >>,
      << <<<<0, 0>>, <<1300, 0>>>>,
         << <<0, 0, 0>>,
            <<2592939, 460100, 1>>,
            <<1571014, 188000, -2>>,
            <<4382562, 723700, -5>>,
            <<-2526116, 979400, -7>>,
            <<6431181, 933900, -10>>,
            <<-1006347, 151900, -12>>,
            <<9974533, 899200, -16>>,
            <<-6086324, 560700, -19>>,
            <<2084922, 933900, -22>>,
            <<-3068219, 615100, -26>> >> >>
    >>

N_MICROVOLT_TO_TEMP ==
    <<
      << <<<<-3990, 0>>, <<0, 0>>>>,
         << <<0, 0, 0>>,
            <<3843684, 700000, -2>>,
            <<1101048, 500000, -6>>,
            <<5222931, 200000, -9>>,
            <<7206052, 500000, -13>>,
            <<5848858, 600000, -15>>,
            <<2775491, 600000, -18>>,
            <<7707516, 600000, -22>>,
            <<1158266, 500000, -25>>,
            <<7313886, 800000, -30>> >> >>,
      << <<<<0, 0>>, <<20613, 0>>>>,
         << <<0, 0, 0>>,
            <<3868960, 000000, -2>>,
            <<-1082670, 000000, -6>>,
            <<4702050, 000000, -11>>,
            <<-2121690, 000000, -16>>,
            <<-1172720, 000000, -19>>,
            <<5392800, 000000, -24>>,
            <<-7981560, 000000, -29>> >> >>,
      << <<<<20613, 0>>, <<47513, 0>>>>,
         << <<1972485, 000000, 1>>,
            <<3300943, 000000, -2>>,
            <<-3915159, 000000, -7>>,
            <<9855391, 000000, -12>>,
            <<-1274371, 000000, -16>>,
            <<7767022, 000000, -22>> >> >>,
      << <<<<0, 0>>, <<47513, 0>>>>,
         << <<0, 0, 0>>,
            <<3876327, 700000, -2>>,
            <<-1161234, 400000, -6>>,
            <<6952565, 500000, -11>>,
            <<-3009007, 700000, -15>>,
            <<8831158, 400000, -20>>,
            <<-1621383, 900000, -24>>,
            <<1669336, 200000, -29>>,
            <<-7311754, 000000, -35>> >> >>
    >>

N_TEMP_TO_SEEBECK ==
    <<
      << <<<<-270, 0>>, <<0, 0>>>>,
         << <<2615910, 596200, 1>>,
            <<2191496, 845600, -2>>,
            <<-2815233, 346620, -4>>,
            <<-1856481, 590360, -5>>,
            <<-1315167, 885800, -6>>,
            <<-1359206, 280180, -8>>,
            <<-5326251, 055370, -11>>,
            <<-7473573, 426800, -14>> >> >>,
      << <<<<0, 0>>, <<1300, 0>>>>,
         << <<2592939, 460100, 1>>,
            <<3142028, 376000, -2>>,
            <<1314768, 817110, -4>>,
            <<-1010446, 791760, -6>>,
            <<3215590, 966950, -9>>,
            <<-6038082, 911400, -12>>,
            <<6982203, 739440, -15>>,
            <<-4869059, 648560, -18>>,
            <<1876450, 640510, -21>>,
            <<-3068219, 615100, -25>> >> >>
    >>

N_TEMP_TO_DSDT ==
    <<
      << <<<<-270, 0>>, <<0, 0>>>>,
         << <<2191496, 845600, -2>>,
            <<-5630466, 693240, -4>>,
            <<-5569444, 771080, -5>>,
            <<-5260671, 543200, -6>>,
            <<-6796031, 401080, -8>>,
            <<-3195750, 633222, -10>>,
            <<-5231501, 998760, -13>> >> >>,
      << <<<<0, 0>>, <<1300, 0>>>>,
         << <<3142028, 376000, -2>>,
            <<2629537, 634220, -4>>,
            <<-3031340, 375280, -6>>,
            <<1286236, 386780, -8>>,
            <<-3019041, 746840, -11>>,
            <<4187542, 616064, -14>>,
            <<-3408247, 718848, -17>>,
            <<1501060, 432408, -20>>,
            <<-2761397, 653590, -24>> >> >>
    >>

N_TEMP_TO_MICROVOLT_POS_LEG ==
    <<
      << <<<<-200, 0>>, <<0, 0>>>>,
         << <<0, 0, 0>>,
            <<1074111, 753200, 1>>,
            <<-1474989, 822900, -2>>,
            <<-3653285, 783200, -6>>,
            <<4901358, 902900, -7>>,
            <<7222858, 260400, -10>>,
            <<-1538109, 323600, -11>>,
            <<-7608930, 079100, -14>>,
            <<-9341966, 783500, -17>> >> >>,
      << <<<<0, 0>>, <<1300, 0>>>>,
         << <<0, 0, 0>>,
            <<1048400, 865500, 1>>,
            <<-1101219, 940900, -2>>,
            <<6942094, 028900, -5>>,
            <<-2195836, 005300, -7>>,
            <<4423649, 636800, -10>>,
            <<-5792656, 096400, -13>>,
            <<4793166, 547000, -16>>,
            <<-2397612, 067600, -19>>,
            <<6580494, 631800, -23>>,
            <<-7560893, 996500, -27>> >> >>
    >>

N_TEMP_TO_MICROVOLT_NEG_LEG ==
    <<
      << <<<<-200, 0>>, <<0, 0>>>>,
         << <<0, 0, 0>>,
            <<1541798, 843000, 1>>,
            <<2570738, 245700, -2>>,
            <<-9018782, 577100, -5>>,
            <<-5365479, 300500, -6>>,
            <<-3352621, 597600, -9>>,
            <<-7272344, 767000, -12>> >> >>,
      << <<<<0, 0>>, <<1300, 0>>>>,
         << <<0, 0, 0>>,
            <<1544536, 594700, 1>>,
            <<2672341, 269000, -2>>,
            <<-2559531, 305200, -5>>,
            <<-3302809, 741400, -8>>,
            <<2007532, 297100, -10>>,
            <<-4270815, 423000, -13>>,
            <<5181347, 352200, -16>>,
            <<-3689712, 493100, -19>>,
            <<1426973, 470800, -22>>,
            <<-2312130, 215400, -26>> >> >>
    >>

N_TEMP_TO_SEEBECK_POS_LEG ==
    <<
      << <<<<-200, 0>>, <<0, 0>>>>,
         << <<1074111, 753200, 1>>,
            <<-2949979, 645800, -2>>,
            <<-1095985, 734960, -5>>,
            <<1960543, 561160, -6>>,
            <<2889143, 304160, -9>>,
            <<-9228655, 941600, -11>>,
            <<-5326251, 055370, -13>>,
            <<-7473573, 426800, -16>> >> >>,
      << <<<<0, 0>>, <<1300, 0>>>>,
         << <<1048400, 865500, 1>>,
            <<-2202439, 881800, -2>>,
            <<2082628, 208670, -4>>,
            <<-8783344, 021200, -7>>,
            <<2211824, 818400, -9>>,
            <<-4054859, 267480, -12>>,
            <<3834533, 237600, -15>>,
            <<-1917089, 654080, -18>>,
            <<5922445, 168620, -21>>,
            <<-7560893, 996500, -24>> >> >>
    >>

N_TEMP_TO_SEEBECK_NEG_LEG ==
    <<
      << <<<<-200, 0>>, <<0, 0>>>>,
         << <<1541798, 843000, 1>>,
            <<5141476, 491400, -2>>,
            <<-2705487, 868130, -4>>,
            <<-2146191, 720200, -5>>,
            <<-1341048, 639040, -7>>,
            <<-4363409, 860400, -10>> >> >>,
      << <<<<0, 0>>, <<1300, 0>>>>,
         << <<1544536, 594700, 1>>,
            <<5344682, 538000, -2>>,
            <<-7678593, 915600, -5>>,
            <<-1321123, 896560, -7>>,
            <<1003766, 148550, -9>>,
            <<-2562489, 253800, -12>>,
            <<3627943, 146540, -15>>,
            <<-2951769, 994480, -18>>,
            <<1284276, 123720, -21>>,
            <<-2543343, 236940, -24>> >> >>
    >>

R_TEMP_TO_MICROVOLT ==
    <<
      << <<<<-50, 0>>, <<106418, -2>>>>,
         << <<0, 0, 0>>,
            <<5289617, 297650, 0>>,
            <<1391665, 897820, -2>>,
            <<-2388556, 930170, -5>>,
            <<3569160, 010630, -8>>,
            <<-4623476, 662980, -11>>,
            <<5007774, 410340, -14>>,
            <<-3731058, 861910, -17>>,
            <<1577164, 823670, -20>>,
            <<-2810386, 252510, -24>> >> >>,
      << <<<<106418, -2>>, <<16645, -1>>>>,
         << <<2951579, 253160, 3>>,
            <<-2520612, 513320, 0>>,
            <<1595645, 018650, -2>>,
            <<-7640859, 475760, -6>>,
            <<2053052, 910240, -9>>,
            <<-2933596, 681730, -13>> >> >>,
      << <<<<16645, -1>>, <<17681, -1>>>>,
         << <<1522321, 182090, 5>>,
            <<-2688198, 885450, 2>>,
            <<1712802, 804710, -1>>,
            <<-3458957, 064530, -5>>,
            <<-9346339, 710460, -12>> >> >>
    >>

R_MICROVOLT_TO_TEMP ==
    <<
      << <<<<-226, 0>>, <<1923, 0>>>>,
         << <<0, 0, 0>>,
            <<1889138, 000000, -1>>,
            <<-9383529, 000000, -5>>,
            <<1306861, 900000, -7>>,
            <<-2270358, 000000, -10>>,
            <<3514565, 900000, -13>>,
            <<-3895390, 000000, -16>>,
            <<2823947, 100000, -19>>,
            <<-1260728, 100000, -22>>,
            <<3135361, 100000, -26>>,
            <<-3318776, 900000, -30>> >> >>,
      << <<<<1923, 0>>, <<13228, 0>>>>,
         << <<1334584, 505000, 1>>,
            <<1472644, 573000, -1>>,
            <<-1844024, 844000, -5>>,
            <<4031129, 726000, -9>>,
            <<-6249428, 360000, -13>>,
            <<6468412, 046000, -17>>,
            <<-4458750, 426000, -21>>,
            <<1994710, 149000, -25>>,
            <<-5313401, 790000, -30>>,
            <<6481976, 217000, -35>> >> >>,
      << <<<<11361, 0>>, <<19739, 0>>>>,
         << <<-8199599, 416000, 1>>,
            <<1553962, 042000, -1>>,
            <<-8342197, 663000, -6>>,
            <<4279433, 549000, -10>>,
            <<-1191577, 910000, -14>>,
            <<1492290, 091000, -19>> >> >>,
      << <<<<19739, 0>>, <<21103, 0>>>>,
         << <<3406177, 836000, 1>>,
            <<-7023729, 171000, -3>>,
            <<5582903, 813000, -6>>,
            <<-1952394, 635000, -9>>,
            <<2560740, 231000, -13>> >> >>
    >>

R_TEMP_TO_SEEBECK ==
    <<
      << <<<<-50, 0>>, <<106418, -2>>>>,
         << <<5289617, 297650, 0>>,
            <<2783331, 795640, -2>>,
            <<-7165670, 790510, -5>>,
            <<1427664, 004252, -7>>,
            <<-2311738, 331490, -10>>,
            <<3004664, 646204, -13>>,
            <<-2611741, 203370, -16>>,
            <<1261731, 858936, -19>>,
            <<-2529347, 502259, -23>> >> >>,
      << <<<<106418, -2>>, <<16645, -1>>>>,
         << <<-2520612, 513320, 0>>,
            <<3191290, 037300, -2>>,
            <<-2292257, 862280, -5>>,
            <<8212211, 640960, -9>>,
            <<-1466798, 340865, -12>> >> >>,
      << <<<<16645, -1>>, <<17681, -1>>>>,
         << <<-2688198, 885450, 2>>,
            <<3425605, 609420, -1>>,
            <<-1037691, 219359, -4>>,
            <<-3738533, 884184, -11>> >> >>
    >>

R_TEMP_TO_DSDT ==
    <<
      << <<<<-50, 0>>, <<106418, -2>>>>,
         << <<2783331, 795640, -2>>,
            <<-1433134, 158102, -4>>,
            <<4282992, 012756, -7>>,
            <<-9246953, 325960, -10>>,
            <<1502332, 323102, -12>>,
            <<-1567044, 722022, -15>>,
            <<8821230, 212552, -19>>,
            <<-2026478, 001807, -22>> >> >>,
      << <<<<106418, -2>>, <<16645, -1>>>>,
         << <<3191290, 037300, -2>>,
            <<-4584515, 724560, -5>>,
            <<2463663, 492288, -8>>,
            <<-5867193, 363460, -12>> >> >>,
      << <<<<16645, -1>>, <<17681, -1>>>>,
         << <<3425605, 609420, -1>>,
            <<-2075382, 438718, -4>>,
            <<-1121560, 165255, -10>> >> >>
    >>

R_TEMP_TO_MICROVOLT_POS_LEG ==
    <<
      << <<<<-50, 0>>, <<106418, -2>>>>,
         << <<0, 0, 0>>,
            <<5289617, 297650, 0>>,
            <<1391665, 897820, -2>>,
            <<-2388556, 930170, -5>>,
            <<3569160, 010630, -8>>,
            <<-4623476, 662980, -11>>,
            <<5007774, 410340, -14>>,
            <<-3731058, 861910, -17>>,
            <<1577164, 823670, -20>>,
            <<-2810386, 252510, -24>> >> >>,
      << <<<<106418, -2>>, <<16645, -1>>>>,
         << <<2951579, 253160, 3>>,
            <<-2520612, 513320, 0>>,
            <<1595645, 018650, -2>>,
            <<-7640859, 475760, -6>>,
            <<2053052, 910240, -9>>,
            <<-2933596, 681730, -13>> >> >>,
      << <<<<16645, -1>>, <<17681, -1>>>>,
         << <<1522321, 182090, 5>>,
            <<-2688198, 885450, 2>>,
            <<1712802, 804710, -1>>,
            <<-3458957, 064530, -5>>,
            <<-9346339, 710460, -12>> >> >>
    >>

R_TEMP_TO_MICROVOLT_NEG_LEG ==
    <<
      << <<<<-50, 0>>, <<17681, -1>>>>,
         << <<0, 0, 0>> >> >>
    >>

R_TEMP_TO_SEEBECK_POS_LEG ==
    <<
      << <<<<-50, 0>>, <<106418, -2>>>>,
         << <<5289617, 297650, 0>>,
            <<2783331, 795640, -2>>,
            <<-7165670, 790510, -5>>,
            <<1427664, 004252, -7>>,
            <<-2311738, 331490, -10>>,
            <<3004664, 646204, -13>>,
            <<-2611741, 203370, -16>>,
            <<1261731, 858936, -19>>,
            <<-2529347, 502259, -23>> >> >>,
      << <<<<106418, -2>>, <<16645, -1>>>>,
         << <<-2520612, 513320, 0>>,
            <<3191290, 037300, -2>>,
            <<-2292257, 862280, -5>>,
            <<8212211, 640960, -9>>,
            <<-1466798, 340865, -12>> >> >>,
      << <<<<16645, -1>>, <<17681, -1>>>>,
         << <<-2688198, 885450, 2>>,
            <<3425605, 609420, -1>>,
            <<-1037691, 219359, -4>>,
            <<-3738533, 884184, -11>> >> >>
    >>

R_TEMP_TO_SEEBECK_NEG_LEG ==
    <<
      << <<<<-50, 0>>, <<17681, -1>>>>,
         << <<0, 0, 0>> >> >>
    >>

S_TEMP_TO_MICROVOLT ==
    <<
      << <<<<-50, 0>>, <<106418, -2>>>>,
         << <<0, 0, 0>>,
            <<5403133, 086310, 0>>,
            <<1259342, 897400, -2>>,
            <<-2324779, 686890, -5>>,
            <<3220288, 230360, -8>>,
            <<-3314651, 963890, -11>>,
            <<2557442, 517860, -14>>,
            <<-1250688, 713930, -17>>,
            <<2714431, 761450, -21>> >> >>,
      << <<<<106418, -2>>, <<16645, -1>>>>,
         << <<1329004, 440850, 3>>,
            <<3345093, 113440, 0>>,
            <<6548051, 928180, -3>>,
            <<-1648562, 592090, -6>>,
            <<1299896, 051740, -11>> >> >>,
      << <<<<16645, -1>>, <<17681, -1>>>>,
         << <<1466282, 326360, 5>>,
            <<-2584305, 167520, 2>>,
            <<1636935, 746410, -1>>,
            <<-3304390, 469870, -5>>,
            <<-9432236, 906120, -12>> >> >>
    >>

S_MICROVOLT_TO_TEMP ==
    <<
      << <<<<-235, 0>>, <<1874, 0>>>>,
         << <<0, 0, 0>>,
            <<1849494, 600000, -1>>,
            <<-8005040, 620000, -5>>,
            <<1022374, 300000, -7>>,
            <<-1522485, 920000, -10>>,
            <<1888213, 430000, -13>>,
            <<-1590859, 410000, -16>>,
            <<8230278, 800000, -20>>,
            <<-2341819, 440000, -23>>,
            <<2797862, 600000, -27>> >> >>,
      << <<<<1874, 0>>, <<11950, 0>>>>,
         << <<1291507, 177000, 1>>,
            <<1466298, 863000, -1>>,
            <<-1534713, 402000, -5>>,
            <<3145945, 973000, -9>>,
            <<-4163257, 839000, -13>>,
            <<3187963, 771000, -17>>,
            <<-1291637, 500000, -21>>,
            <<2183475, 087000, -26>>,
            <<-1447379, 511000, -31>>,
            <<8211272, 125000, -36>> >> >>,
      << <<<<10332, 0>>, <<17536, 0>>>>,
         << <<-8087801, 117000, 1>>,
            <<1621573, 104000, -1>>,
            <<-8536869, 453000, -6>>,
            <<4719686, 976000, -10>>,
            <<-1441693, 666000, -14>>,
            <<2081618, 890000, -19>> >> >>,
      << <<<<17536, 0>>, <<18693, 0>>>>,
         << <<5333875, 126000, 1>>,
            <<-1235892, 298000, -2>>,
            <<1092657, 613000, -6>>,
            <<-4265693, 686000, -9>>,
            <<6247205, 420000, -13>> >> >>
    >>

S_TEMP_TO_SEEBECK ==
    <<
      << <<<<-50, 0>>, <<106418, -2>>>>,
         << <<5403133, 086310, 0>>,
            <<2518685, 794800, -2>>,
            <<-6974339, 060670, -5>>,
            <<1288115, 292144, -7>>,
            <<-1657325, 963945, -10>>,
            <<1534465, 510716, -13>>,
            <<-8754820, 751100, -17>>,
            <<2171545, 409160, -20>> >> >>,
      << <<<<106418, -2>>, <<16645, -1>>>>,
         << <<3345093, 113440, 0>>,
            <<1309610, 385636, -2>>,
            <<-4945637, 776270, -6>>,
            <<5199584, 069600, -11>> >> >>,
      << <<<<16645, -1>>, <<17681, -1>>>>,
         << <<-2584305, 167520, 2>>,
            <<3273871, 492820, -1>>,
            <<-9913171, 409610, -5>>,
            <<-3772894, 762448, -11>> >> >>
    >>

S_TEMP_TO_DSDT ==
    <<
      << <<<<-50, 0>>, <<106418, -2>>>>,
         << <<2518685, 794800, -2>>,
            <<-1394867, 812134, -4>>,
            <<3864345, 876432, -7>>,
            <<-6629303, 855780, -10>>,
            <<7672327, 553580, -13>>,
            <<-5252874, 525770, -16>>,
            <<1520081, 486312, -19>> >> >>,
      << <<<<106418, -2>>, <<16645, -1>>>>,
         << <<1309610, 385636, -2>>,
            <<-9891275, 552540, -6>>,
            <<1559875, 220880, -10>> >> >>,
      << <<<<16645, -1>>, <<17681, -1>>>>,
         << <<3273871, 492820, -1>>,
            <<-1982634, 281922, -4>>,
            <<-1131868, 428734, -10>> >> >>
    >>

S_TEMP_TO_MICROVOLT_POS_LEG ==
    <<
      << <<<<-50, 0>>, <<106418, -2>>>>,
         << <<0, 0, 0>>,
            <<5403133, 086310, 0>>,
            <<1259342, 897400, -2>>,
            <<-2324779, 686890, -5>>,
            <<3220288, 230360, -8>>,
            <<-3314651, 963890, -11>>,
            <<2557442, 517860, -14>>,
            <<-1250688, 713930, -17>>,
            <<2714431, 761450, -21>> >> >>,
      << <<<<106418, -2>>, <<16645, -1>>>>,
         << <<1329004, 440850, 3>>,
            <<3345093, 113440, 0>>,
            <<6548051, 928180, -3>>,
            <<-1648562, 592090, -6>>,
            <<1299896, 051740, -11>> >> >>,
      << <<<<16645, -1>>, <<17681, -1>>>>,
         << <<1466282, 326360, 5>>,
            <<-2584305, 167520, 2>>,
            <<1636935, 746410, -1>>,
            <<-3304390, 469870, -5>>,
            <<-9432236, 906120, -12>> >> >>
    >>

S_TEMP_TO_MICROVOLT_NEG_LEG ==
    <<
      << <<<<-50, 0>>, <<17681, -1>>>>,
         << <<0, 0, 0>> >> >>
    >>

S_TEMP_TO_SEEBECK_POS_LEG ==
    <<
      << <<<<-50, 0>>, <<106418, -2>>>>,
         << <<5403133, 086310, 0>>,
            <<2518685, 794800, -2>>,
            <<-6974339, 060670, -5>>,
            <<1288115, 292144, -7>>,
            <<-1657325, 963945, -10>>,
            <<1534465, 510716, -13>>,
            <<-8754820, 751100, -17>>,
            <<2171545, 409160, -20>> >> >>,
      << <<<<106418, -2>>, <<16645, -1>>>>,
         << <<3345093, 113440, 0>>,
            <<1309610, 385636, -2>>,
            <<-4945637, 776270, -6>>,
            <<5199584, 069600, -11>> >> >>,
      << <<<<16645, -1>>, <<17681, -1>>>>,
         << <<-2584305, 167520, 2>>,
            <<3273871, 492820, -1>>,
            <<-9913171, 409610, -5>>,
            <<-3772894, 762448, -11>> >> >>
    >>

S_TEMP_TO_SEEBECK_NEG_LEG ==
    <<
      << <<<<-50, 0>>, <<17681, -1>>>>,
         << <<0, 0, 0>> >> >>
    >>

T_TEMP_TO_MICROVOLT ==
    <<
      << <<<<-270, 0>>, <<0, 0>>>>,
         << <<0, 0, 0>>,
            <<3874810, 636400, 1>>,
            <<4419443, 434700, -2>>,
            <<1184432, 310500, -4>>,
            <<2003297, 355400, -5>>,
            <<9013801, 955900, -7>>,
            <<2265115, 659300, -8>>,
            <<3607115, 420500, -10>>,
            <<3849393, 988300, -12>>,
            <<2821352, 192500, -14>>,
            <<1425159, 477900, -16>>,
            <<4876866, 228600, -19>>,
            <<1079553, 927000, -21>>,
            <<1394502, 706200, -24>>,
            <<7979515, 392700, -28>> >> >>,
      << <<<<0, 0>>, <<400, 0>>>>,
         << <<0, 0, 0>>,
            <<3874810, 636400, 1>>,
            <<3329222, 788000, -2>>,
            <<2061824, 340400, -4>>,
            <<-2188225, 684600, -6>>,
            <<1099688, 092800, -8>>,
            <<-3081575, 877200, -11>>,
            <<4547913, 529000, -14>>,
            <<-2751290, 167300, -17>> >> >>
    >>

T_MICROVOLT_TO_TEMP ==
    <<
      << <<<<-5603, 0>>, <<0, 0>>>>,
         << <<0, 0, 0>>,
            <<2594919, 200000, -2>>,
            <<-2131696, 700000, -7>>,
            <<7901869, 200000, -10>>,
            <<4252777, 700000, -13>>,
            <<1330447, 300000, -16>>,
            <<2024144, 600000, -20>>,
            <<1266817, 100000, -24>> >> >>,
      << <<<<0, 0>>, <<20872, 0>>>>,
         << <<0, 0, 0>>,
            <<2592800, 000000, -2>>,
            <<-7602961, 000000, -7>>,
            <<4637791, 000000, -11>>,
            <<-2165394, 000000, -15>>,
            <<6048144, 000000, -20>>,
            <<-7293422, 000000, -25>> >> >>
    >>

T_TEMP_TO_SEEBECK ==
    <<
      << <<<<-270, 0>>, <<0, 0>>>>,
         << <<3874810, 636400, 1>>,
            <<8838886, 869400, -2>>,
            <<3553296, 931500, -4>>,
            <<8013189, 421600, -5>>,
            <<4506909, 779500, -6>>,
            <<1359069, 395580, -7>>,
            <<2524990, 843500, -9>>,
            <<3079515, 190640, -11>>,
            <<2539206, 932500, -13>>,
            <<1425159, 477900, -15>>,
            <<5364928, 850600, -18>>,
            <<1295464, 712400, -20>>,
            <<1812853, 518060, -23>>,
            <<1117132, 050780, -26>> >> >>,
      << <<<<0, 0>>, <<400, 0>>>>,
         << <<3874810, 636400, 1>>,
            <<6658445, 576000, -2>>,
            <<6185473, 021200, -4>>,
            <<-8752902, 738400, -6>>,
            <<5498440, 464000, -8>>,
            <<-1848945, 526320, -10>>,
            <<3183539, 470300, -13>>,
            <<-2201032, 138400, -16>> >> >>
    >>

T_TEMP_TO_DSDT ==
    <<
      << <<<<-270, 0>>, <<0, 0>>>>,
         << <<8838886, 869400, -2>>,
            <<7106593, 863000, -4>>,
            <<2403956, 826480, -4>>,
            <<1802763, 911800, -5>>,
            <<6795346, 977900, -7>>,
            <<1514994, 506100, -8>>,
            <<2155660, 633448, -10>>,
            <<2031365, 546000, -12>>,
            <<1282643, 530110, -14>>,
            <<5364928, 850600, -17>>,
            <<1425164, 712400, -19>>,
            <<2356710, 723278, -22>>,
            <<1562382, 668092, -25>> >> >>,
      << <<<<0, 0>>, <<400, 0>>>>,
         << <<6658445, 576000, -2>>,
            <<1237094, 604240, -3>>,
            <<-2625870, 821520, -5>>,
            <<2199376, 185600, -7>>,
            <<-9244727, 631600, -10>>,
            <<1910123, 682180, -12>>,
            <<-1540722, 496720, -15>> >> >>
    >>

T_TEMP_TO_MICROVOLT_POS_LEG ==
    <<
      << <<<<-270, 0>>, <<0, 0>>>>,
         << <<0, 0, 0>>,
            <<5894548, 229700, 1>>,
            <<2177354, 516700, -2>>,
            <<2826751, 733100, -4>>,
            <<2256129, 063200, -5>>,
            <<9502026, 902000, -7>>,
            <<2412716, 823300, -8>>,
            <<3910747, 567800, -10>>,
            <<4217403, 476600, -12>>,
            <<3094671, 890400, -14>>,
            <<1551930, 033900, -16>>,
            <<5235860, 991100, -19>>,
            <<1136383, 791300, -21>>,
            <<1433054, 079200, -24>>,
            <<7979515, 392700, -28>> >> >>,
      << <<<<0, 0>>, <<400, 0>>>>,
         << <<0, 0, 0>>,
            <<5894548, 226500, 1>>,
            <<1509134, 765200, -2>>,
            <<1385988, 324200, -4>>,
            <<-1827351, 164900, -6>>,
            <<1033635, 649100, -8>>,
            <<-3065826, 553400, -11>>,
            <<4681530, 823500, -14>>,
            <<-2974071, 681200, -17>>,
            <<1474503, 431300, -20>>,
            <<-3659405, 308700, -25>> >> >>
    >>

T_TEMP_TO_MICROVOLT_NEG_LEG ==
    <<
      << <<<<-270, 0>>, <<0, 0>>>>,
         << <<0, 0, 0>>,
            <<3285355, 813400, 1>>,
            <<2242088, 818100, -2>>,
            <<-1642329, 422600, -4>>,
            <<-2528317, 078000, -6>>,
            <<-4892249, 460900, -8>>,
            <<-1476011, 640400, -9>>,
            <<-3036321, 473100, -11>>,
            <<-3680094, 883000, -13>>,
            <<-2733196, 978500, -15>>,
            <<-1267705, 560500, -17>>,
            <<-3589947, 524700, -20>>,
            <<-5682986, 428000, -23>>,
            <<-3855137, 308500, -26>> >> >>,
      << <<<<0, 0>>, <<1000, 0>>>>,
         << <<0, 0, 0>>,
            <<3285355, 813800, 1>>,
            <<1820088, 022700, -2>>,
            <<6758360, 162400, -5>>,
            <<-3608745, 197500, -7>>,
            <<6605244, 362300, -10>>,
            <<-1574932, 377100, -13>>,
            <<-1336172, 944200, -15>>,
            <<2227815, 139100, -18>>,
            <<-1474503, 431300, -21>>,
            <<3659405, 308700, -25>> >> >>
    >>

T_TEMP_TO_SEEBECK_POS_LEG ==
    <<
      << <<<<-270, 0>>, <<0, 0>>>>,
         << <<5894548, 229700, 1>>,
            <<4354709, 033400, -2>>,
            <<8480255, 199300, -4>>,
            <<9024516, 252800, -5>>,
            <<4751013, 451000, -6>>,
            <<1447630, 093980, -7>>,
            <<2737523, 297460, -9>>,
            <<3373922, 781280, -11>>,
            <<2785204, 701360, -13>>,
            <<1551930, 033900, -15>>,
            <<5759447, 090210, -18>>,
            <<1363660, 549560, -20>>,
            <<1863970, 303960, -23>>,
            <<1117132, 050780, -26>> >> >>,
      << <<<<0, 0>>, <<400, 0>>>>,
         << <<5894548, 226500, 1>>,
            <<3018269, 530400, -2>>,
            <<4157964, 972600, -4>>,
            <<-7309404, 659600, -6>>,
            <<5168178, 245500, -8>>,
            <<-2146078, 587380, -10>>,
            <<3277071, 576450, -13>>,
            <<-2379257, 345000, -16>>,
            <<1327053, 088170, -19>>,
            <<-3659405, 308700, -24>> >> >>
    >>

T_TEMP_TO_SEEBECK_NEG_LEG ==
    <<
      << <<<<-270, 0>>, <<0, 0>>>>,
         << <<3285355, 813400, 1>>,
            <<4484177, 636200, -2>>,
            <<-4926988, 267800, -4>>,
            <<-1011326, 831200, -5>>,
            <<-2935349, 676540, -7>>,
            <<-8856069, 842400, -9>>,
            <<-2125425, 031170, -10>>,
            <<-2944075, 906400, -12>>,
            <<-2459877, 280650, -14>>,
            <<-1267705, 560500, -16>>,
            <<-3948942, 277170, -19>>,
            <<-7387882, 356000, -22>>,
            <<-5011678, 501050, -25>> >> >>,
      << <<<<0, 0>>, <<1000, 0>>>>,
         << <<3285355, 813800, 1>>,
            <<3640176, 045400, -2>>,
            <<2027508, 048720, -4>>,
            <<-1443498, 079000, -6>>,
            <<3963146, 617380, -9>>,
            <<-9449594, 262600, -13>>,
            <<-9353210, 609400, -15>>,
            <<1782252, 111280, -17>>,
            <<-1327053, 088170, -20>>,
            <<3659405, 308700, -24>> >> >>
    >>

---------------------------------------------------------------------------
(* registry.py *)

TYPE_K == ThermocoupleType("K", Imported, Imported, Imported, Imported, Imported, Imported, Imported, Imported, ImportedFunction, ImportedFunction, ImportedFunction, ImportedFunction)

TYPE_J == ThermocoupleType("J", List(J_TEMP_TO_MICROVOLT), List(J_MICROVOLT_TO_TEMP), List(J_TEMP_TO_SEEBECK), List(J_TEMP_TO_DSDT), List(J_TEMP_TO_MICROVOLT_POS_LEG), List(J_TEMP_TO_MICROVOLT_NEG_LEG), List(J_TEMP_TO_SEEBECK_POS_LEG), List(J_TEMP_TO_SEEBECK_NEG_LEG), NoFunction, NoFunction, NoFunction, NoFunction)

(* a table with the two bounds of every entry exchanged, and type T with   *)
(* its forward table declared that way                                     *)
BoundsExchanged(table) == [k \in DOMAIN table |-> << <<table[k][1][2], table[k][1][1]>>, table[k][2] >>]

TYPE_T_BoundsExchanged == ThermocoupleType("T", List(BoundsExchanged(T_TEMP_TO_MICROVOLT)), List(T_MICROVOLT_TO_TEMP), List(T_TEMP_TO_SEEBECK), List(T_TEMP_TO_DSDT), List(T_TEMP_TO_MICROVOLT_POS_LEG), List(T_TEMP_TO_MICROVOLT_NEG_LEG), List(T_TEMP_TO_SEEBECK_POS_LEG), List(T_TEMP_TO_SEEBECK_NEG_LEG), NoFunction, NoFunction, NoFunction, NoFunction)

TYPE_T == ThermocoupleType("T", List(T_TEMP_TO_MICROVOLT), List(T_MICROVOLT_TO_TEMP), List(T_TEMP_TO_SEEBECK), List(T_TEMP_TO_DSDT), List(T_TEMP_TO_MICROVOLT_POS_LEG), List(T_TEMP_TO_MICROVOLT_NEG_LEG), List(T_TEMP_TO_SEEBECK_POS_LEG), List(T_TEMP_TO_SEEBECK_NEG_LEG), NoFunction, NoFunction, NoFunction, NoFunction)

TYPE_E == ThermocoupleType("E", Imported, Imported, Imported, Imported, Imported, Imported, Imported, Imported, NoFunction, NoFunction, NoFunction, NoFunction)

TYPE_N == ThermocoupleType("N", List(N_TEMP_TO_MICROVOLT), List(N_MICROVOLT_TO_TEMP), List(N_TEMP_TO_SEEBECK), List(N_TEMP_TO_DSDT), List(N_TEMP_TO_MICROVOLT_POS_LEG), List(N_TEMP_TO_MICROVOLT_NEG_LEG), List(N_TEMP_TO_SEEBECK_POS_LEG), List(N_TEMP_TO_SEEBECK_NEG_LEG), NoFunction, NoFunction, NoFunction, NoFunction)

TYPE_B == ThermocoupleType("B", List(B_TEMP_TO_MICROVOLT), List(B_MICROVOLT_TO_TEMP), List(B_TEMP_TO_SEEBECK), List(B_TEMP_TO_DSDT), List(B_TEMP_TO_MICROVOLT_POS_LEG), List(B_TEMP_TO_MICROVOLT_NEG_LEG), List(B_TEMP_TO_SEEBECK_POS_LEG), List(B_TEMP_TO_SEEBECK_NEG_LEG), NoFunction, NoFunction, NoFunction, NoFunction)

TYPE_R == ThermocoupleType("R", List(R_TEMP_TO_MICROVOLT), List(R_MICROVOLT_TO_TEMP), List(R_TEMP_TO_SEEBECK), List(R_TEMP_TO_DSDT), List(R_TEMP_TO_MICROVOLT_POS_LEG), List(R_TEMP_TO_MICROVOLT_NEG_LEG), List(R_TEMP_TO_SEEBECK_POS_LEG), List(R_TEMP_TO_SEEBECK_NEG_LEG), NoFunction, NoFunction, NoFunction, NoFunction)

(* type S constructed without the two tables of its negative leg *)
TYPE_S_WithoutNegativeLeg == ThermocoupleType("S", List(S_TEMP_TO_MICROVOLT), List(S_MICROVOLT_TO_TEMP), List(S_TEMP_TO_SEEBECK), List(S_TEMP_TO_DSDT), List(S_TEMP_TO_MICROVOLT_POS_LEG), None, List(S_TEMP_TO_SEEBECK_POS_LEG), None, NoFunction, NoFunction, NoFunction, NoFunction)

TYPE_S == ThermocoupleType("S", List(S_TEMP_TO_MICROVOLT), List(S_MICROVOLT_TO_TEMP), List(S_TEMP_TO_SEEBECK), List(S_TEMP_TO_DSDT), List(S_TEMP_TO_MICROVOLT_POS_LEG), List(S_TEMP_TO_MICROVOLT_NEG_LEG), List(S_TEMP_TO_SEEBECK_POS_LEG), List(S_TEMP_TO_SEEBECK_NEG_LEG), NoFunction, NoFunction, NoFunction, NoFunction)

THERMOCOUPLE_TYPES ==
    [ B |-> TYPE_B, E |-> TYPE_E, J |-> TYPE_J, K |-> TYPE_K,
      N |-> TYPE_N, R |-> TYPE_R, S |-> TYPE_S, T |-> TYPE_T ]

(* the keys in sorted order, and sorted(types.keys()) for a dictionary of  *)
(* some of them                                                            *)
SortedKeys == <<"B", "E", "J", "K", "N", "R", "S", "T">>

InKeys(types, key) == key \in DOMAIN types

sorted_keys(types) == SelectSeq(SortedKeys, LAMBDA key : InKeys(types, key))

(* str.upper() on a string given as the sequence of its characters *)
UpperChar(c) ==
    CASE c = "b" -> "B" [] c = "e" -> "E" [] c = "j" -> "J" [] c = "k" -> "K"
      [] c = "n" -> "N" [] c = "r" -> "R" [] c = "s" -> "S" [] c = "t" -> "T"
      [] c = "x" -> "X" [] OTHER -> c

(* the lookup without the conversion to upper case *)
NotUppered(str) == str

upper(str) == [i \in 1..Len(str) |-> UpperChar(str[i])]

(* a one-character string as a dictionary key *)
InRegistry(types, str) == Len(str) = 1 /\ str[1] \in DOMAIN types

(* ValueError(f"Thermocouple type '{tc_type}' not supported. Available types: {available}") *)
UnknownTypeError(tc_type, available) == Outcome("ValueError", Zero, "not supported", "", tc_type \o <<"Available types:">> \o available)

(* the outcome of get_thermocouple when the module's dictionary is types;  *)
(* the object returned is the dictionary's entry for the key named in it   *)
get_thermocouple(types, tc_type) ==
    LET u == upper(tc_type)
    IN  IF ~InRegistry(types, u)
        THEN UnknownTypeError(u, sorted_keys(types))
        ELSE Object("ThermocoupleType", u[1])

(* The functions of registry.py that take the type code: each is           *)
(* tc = get_thermocouple(tc_type); return tc.<method>(...).  The exception *)
(* of get_thermocouple leaves the function; otherwise the method runs on   *)
(* the dictionary's object.  Those whose name is also the name of a method *)
(* of ThermocoupleType carry the prefix registry_ here.                    *)
registry_temperature_to_voltage(types, tc_type, temp_c) ==
    LET found == get_thermocouple(types, tc_type)
    IN  IF Raised(found) THEN found ELSE temperature_to_voltage(types[found.name], temp_c)

registry_voltage_to_temperature(types, tc_type, voltage) ==
    LET found == get_thermocouple(types, tc_type)
    IN  IF Raised(found) THEN found ELSE voltage_to_temperature(types[found.name], voltage)

registry_voltage_to_temperature_with_reference(types, tc_type, v_measured, t_ref) ==
    LET found == get_thermocouple(types, tc_type)
    IN  IF Raised(found) THEN found ELSE voltage_to_temperature_with_reference(types[found.name], v_measured, t_ref)

temp_to_seebeck(types, tc_type, temp_c) ==
    LET found == get_thermocouple(types, tc_type)
    IN  IF Raised(found) THEN found ELSE temperature_to_seebeck(types[found.name], temp_c)

(* temp_to_dsdt that calls the method of temp_to_seebeck *)
TempToDsdtCallingSeebeck(types, tc_type, temp_c) ==
    LET found == get_thermocouple(types, tc_type)
    IN  IF Raised(found) THEN found ELSE temperature_to_seebeck(types[found.name], temp_c)

temp_to_dsdt(types, tc_type, temp_c) ==
    LET found == get_thermocouple(types, tc_type)
    IN  IF Raised(found) THEN found ELSE temperature_to_dsdt(types[found.name], temp_c)

(* what a function of registry.py calls after get_thermocouple: nothing    *)
(* when get_thermocouple raised, otherwise what the method calls           *)
FunctionCalls(types, tc_type, method, x, y) ==
    LET found == get_thermocouple(types, tc_type)
    IN  IF Raised(found) THEN <<>> ELSE MethodCalls(method, types[found.name], x, y)

---------------------------------------------------------------------------
(* The inputs: instances built by the constructor from small tables, and   *)
(* small arguments.  Interval bounds and coefficients are integers.        *)

MaxBound == 2

MaxTemp == 3

MaxMicro == 3

GenIntervals == UNION { { <<<<lo, 0>>, <<hi, 0>>>> : hi \in lo..MaxBound } : lo \in 0..MaxBound }

GenCoeffs == { << <<5, 0>> >>, << <<1, 0>>, <<0, 0>>, <<2, 0>> >> }

GenEntries == { <<iv, cs>> : iv \in GenIntervals, cs \in GenCoeffs }

(* the tables of at most two entries, two entries having different         *)
(* coefficients                                                            *)
GenPairs == { <<e, f>> : e \in GenEntries, f \in GenEntries }

GenTables == { <<>> } \cup { <<e>> : e \in GenEntries } \cup { t \in GenPairs : t[1][2] # t[2][2] }

(* microvolts = temperature on [0, MaxBound] *)
FixedForward == << << << <<0, 0>>, <<MaxBound, 0>> >>, << <<0, 0>>, <<1, 0>> >> >> >>

FixedInverse ==
    << << << <<0, 0>>, <<4, 0>> >>, << <<0, 0>>, <<1, 0>> >> >>,
       << << <<4, 0>>, <<20, 0>> >>, << <<1, 0>>, <<0, 0>>, <<1, 0>> >> >> >>

(* the k-th optional table, k = 1..6 in the constructor's order, of two    *)
(* entries that both contain 1, and the j-th correction function,          *)
(* j = 1..4: each differs from the others                                  *)
OptTable(k) ==
    << << << <<0, 0>>, <<1, 0>> >>, << <<10 + k, 0>>, <<k, 0>> >> >>,
       << << <<1, 0>>, <<MaxBound, 0>> >>, << <<k, 0>>, <<10 + k, 0>>, <<1, 0>> >> >> >>

GenFunction(j) == Function(Int2Dec(j + 1), Int2Dec(20 + j))

OptArg(k, present, absent) == IF k \in present THEN List(OptTable(k)) ELSE absent

FnArg(j, attached) == IF j \in attached THEN GenFunction(j) ELSE NoFunction

(* forward tables varied, with and without the forward correction, and    *)
(* inverse tables varied, with it; no optional table                       *)
ConversionModels ==
    { ThermocoupleType("G", List(f), List(FixedInverse), None, None, None, None, None, None, fn, NoFunction, NoFunction, NoFunction) : f \in GenTables, fn \in {NoFunction, GenFunction(1)} }
    \cup
    { ThermocoupleType("G", List(FixedForward), List(i), None, None, None, None, None, None, GenFunction(1), NoFunction, NoFunction, NoFunction) : i \in GenTables }

OptionalModel(p, a, c) == ThermocoupleType("G", List(FixedForward), List(FixedInverse), OptArg(1, p, a), OptArg(2, p, a), OptArg(3, p, a), OptArg(4, p, a), OptArg(5, p, a), OptArg(6, p, a), FnArg(1, c), FnArg(2, c), FnArg(3, c), FnArg(4, c))

(* every choice of optional tables, the absent ones None or [], without    *)
(* corrections; and every choice of corrections with all or none of the    *)
(* optional tables                                                         *)
OptionalModels ==
    { OptionalModel(p, a, {}) : p \in SUBSET (1..6), a \in {None, List(<<>>)} }
    \cup
    { OptionalModel(p, None, c) : p \in {{}, 1..6}, c \in SUBSET (1..4) }

Models == ConversionModels \cup OptionalModels

(* temperatures, in degrees Celsius *)
SampleTemps == { 25, 500, 2000 }

TempInputs == (-1..MaxTemp) \cup SampleTemps

(* temperatures on a bound that two intervals of a reference table share:  *)
(* 630.615 (type B) and 1064.18 (types R and S)                            *)
BoundaryTemps == { Lit(630615, -3), Lit(106418, -2) }

Temps == { Int2Dec(t) : t \in TempInputs } \cup BoundaryTemps

(* voltages, in volts: whole microvolts, and one volt *)
Volt == 1000 * 1000

MicroInputs == (-1..MaxMicro) \cup { Volt }

Volts == { Lit(n, -6) : n \in MicroInputs }

(* measured voltages of the compensated conversion *)
MeasuredVolts == { Lit(n, -6) : n \in {-1, 0, MaxMicro} }

CodeInputs == { <<c>> : c \in {"B", "E", "J", "K", "N", "R", "S", "T", "b", "e", "j", "k", "n", "r", "s", "t", "X", "x"} } \cup { <<>>, <<"K", "K">>, <<"k", "k">> }

AttrInputs == { "name", "_name" }

---------------------------------------------------------------------------
(* The state: the instance the caller holds, the call it made last and    *)
(* what that call gave; the module's dictionary THERMOCOUPLE_TYPES as it   *)
(* is now; the calls that threads of the process have in progress; and    *)
(* what the caller's last call called inside the model, in order.          *)

VARIABLES tc, call, outcome, registry, threads, calls

vars == <<tc, call, outcome, registry, threads, calls>>

Idle == [op |-> "idle", x |-> Zero, y |-> Zero, str |-> <<>>]

CallT(op, t) == [op |-> op, x |-> t, y |-> Zero, str |-> <<>>]

CallVT(op, v, t) == [op |-> op, x |-> v, y |-> t, str |-> <<>>]

CallStr(op, str) == [op |-> op, x |-> Zero, y |-> Zero, str |-> str]

(* every table of the instance is in the source tree *)
Known(self) == \A f \in DOMAIN self \ {"_name"} : self[f].py # "imported"

(* A call of a function of registry.py that a thread has in progress: the *)
(* function and its arguments, where the thread is in it, the key of the   *)
(* registry's object that its local tc refers to, what _select_coeffs      *)
(* returned to it, and the outcome of the call once it is done.            *)
ThreadIds == { 1, 2 }

NoSelection == [raised |-> FALSE, coeffs |-> <<>>, exc |-> NoOutcome]

Frame(pc, op, code, x, self, sel, result) == [pc |-> pc, op |-> op, code |-> code, x |-> x, self |-> self, sel |-> sel, result |-> result]

IdleFrame == Frame("idle", "", <<>>, Zero, "", NoSelection, NoOutcome)

NoThreads == [t \in ThreadIds |-> IdleFrame]

Init ==
    /\ tc \in Models
    /\ call = Idle
    /\ outcome = NoOutcome
    /\ registry = THERMOCOUPLE_TYPES
    /\ threads = NoThreads
    /\ calls = <<>>

GetThermocouple ==
    /\ call = Idle
    /\ \E code \in CodeInputs :
        LET o == get_thermocouple(registry, code)
        IN  /\ call' = CallStr("get_thermocouple", code)
            /\ outcome' = o
            /\ tc' = IF Raised(o) THEN tc ELSE registry[o.name]
    /\ UNCHANGED <<registry, threads>>
    /\ calls' = <<>>

GetAttr ==
    /\ call = Idle
    /\ \E attr \in AttrInputs :
        /\ call' = CallStr("getattr", <<attr>>)
        /\ outcome' = getattr(tc, attr)
        /\ UNCHANGED <<tc, registry, threads>>
        /\ calls' = <<>>

TemperatureToVoltage ==
    /\ call = Idle /\ Known(tc)
    /\ \E t \in Temps :
        /\ call' = CallT("temperature_to_voltage", t)
        /\ outcome' = temperature_to_voltage(tc, t)
        /\ calls' = MethodCalls("temperature_to_voltage", tc, t, Zero)
        /\ UNCHANGED <<tc, registry, threads>>

VoltageToTemperature ==
    /\ call = Idle /\ Known(tc)
    /\ \E v \in Volts :
        /\ call' = CallT("voltage_to_temperature", v)
        /\ outcome' = voltage_to_temperature(tc, v)
        /\ calls' = MethodCalls("voltage_to_temperature", tc, v, Zero)
        /\ UNCHANGED <<tc, registry, threads>>

TemperatureToSeebeck ==
    /\ call = Idle /\ Known(tc)
    /\ \E t \in Temps :
        /\ call' = CallT("temperature_to_seebeck", t)
        /\ outcome' = temperature_to_seebeck(tc, t)
        /\ calls' = MethodCalls("temperature_to_seebeck", tc, t, Zero)
        /\ UNCHANGED <<tc, registry, threads>>

TemperatureToDsdt ==
    /\ call = Idle /\ Known(tc)
    /\ \E t \in Temps :
        /\ call' = CallT("temperature_to_dsdt", t)
        /\ outcome' = temperature_to_dsdt(tc, t)
        /\ calls' = MethodCalls("temperature_to_dsdt", tc, t, Zero)
        /\ UNCHANGED <<tc, registry, threads>>

(* TemperatureToVoltPosLeg that replaces a missing table by an empty list, *)
(* as __init__ does for two of the tables                                  *)
TemperatureToVoltPosLegNormalising ==
    /\ call = Idle /\ Known(tc)
    /\ \E t \in Temps :
        /\ call' = CallT("temperature_to_volt_pos_leg", t)
        /\ outcome' = temperature_to_volt_pos_leg(tc, t)
        /\ calls' = MethodCalls("temperature_to_volt_pos_leg", tc, t, Zero)
        /\ tc' = IF tc._temp_to_microvolt_pos_leg.py = "None" THEN [tc EXCEPT !._temp_to_microvolt_pos_leg = List(<<>>)] ELSE tc
    /\ UNCHANGED <<registry, threads>>

TemperatureToVoltPosLeg ==
    /\ call = Idle /\ Known(tc)
    /\ \E t \in Temps :
        /\ call' = CallT("temperature_to_volt_pos_leg", t)
        /\ outcome' = temperature_to_volt_pos_leg(tc, t)
        /\ calls' = MethodCalls("temperature_to_volt_pos_leg", tc, t, Zero)
        /\ UNCHANGED <<tc, registry, threads>>

TemperatureToVoltNegLeg ==
    /\ call = Idle /\ Known(tc)
    /\ \E t \in Temps :
        /\ call' = CallT("temperature_to_volt_neg_leg", t)
        /\ outcome' = temperature_to_volt_neg_leg(tc, t)
        /\ calls' = MethodCalls("temperature_to_volt_neg_leg", tc, t, Zero)
        /\ UNCHANGED <<tc, registry, threads>>

TemperatureToSeebeckPosLeg ==
    /\ call = Idle /\ Known(tc)
    /\ \E t \in Temps :
        /\ call' = CallT("temperature_to_seebeck_pos_leg", t)
        /\ outcome' = temperature_to_seebeck_pos_leg(tc, t)
        /\ calls' = MethodCalls("temperature_to_seebeck_pos_leg", tc, t, Zero)
        /\ UNCHANGED <<tc, registry, threads>>

TemperatureToSeebeckNegLeg ==
    /\ call = Idle /\ Known(tc)
    /\ \E t \in Temps :
        /\ call' = CallT("temperature_to_seebeck_neg_leg", t)
        /\ outcome' = temperature_to_seebeck_neg_leg(tc, t)
        /\ calls' = MethodCalls("temperature_to_seebeck_neg_leg", tc, t, Zero)
        /\ UNCHANGED <<tc, registry, threads>>

VoltageToTemperatureWithReference ==
    /\ call = Idle /\ Known(tc)
    /\ \E v \in MeasuredVolts, t \in Temps :
        /\ call' = CallVT("voltage_to_temperature_with_reference", v, t)
        /\ outcome' = voltage_to_temperature_with_reference(tc, v, t)
        /\ calls' = MethodCalls("voltage_to_temperature_with_reference", tc, v, t)
        /\ UNCHANGED <<tc, registry, threads>>

(* the caller is done with the outcome of its last call *)
Discard ==
    /\ call # Idle
    /\ call' = Idle
    /\ outcome' = NoOutcome
    /\ UNCHANGED <<tc, registry, threads>>
    /\ calls' = <<>>

Next ==
    \/ GetThermocouple
    \/ GetAttr
    \/ TemperatureToVoltage
    \/ VoltageToTemperature
    \/ TemperatureToSeebeck
    \/ TemperatureToDsdt
    \/ TemperatureToVoltPosLeg
    \/ TemperatureToVoltNegLeg
    \/ TemperatureToSeebeckPosLeg
    \/ TemperatureToSeebeckNegLeg
    \/ VoltageToTemperatureWithReference
    \/ Discard

Spec == Init /\ [][Next]_vars

---------------------------------------------------------------------------
(* Threads of one process calling temperature_to_voltage(tc_type, temp_c)  *)
(* and voltage_to_temperature(tc_type, voltage) of registry.py, after the  *)
(* module has been imported.  A call is a sequence of steps, between which *)
(* the other threads run: tc = get_thermocouple(tc_type), then in the      *)
(* method the call of _select_coeffs, then the rest of the method.         *)

ThreadOps == { "temperature_to_voltage", "voltage_to_temperature" }

ThreadCodes == { <<"B">>, <<"n">>, <<"X">> }

ThreadArgs(op) ==
    IF op = "voltage_to_temperature"
    THEN { Lit(1000, -6), Lit(-1, -6) }
    ELSE { Int2Dec(25), Lit(630615, -3) }

(* the value the method looks up, and the table it looks it up in *)
Key(op, x) == IF op = "voltage_to_temperature" THEN DecMul(x, Million) ELSE x

TableOf(op, self) == IF op = "voltage_to_temperature" THEN self._microvolt_to_temp ELSE self._temp_to_microvolt

(* the rest of the method after _select_coeffs *)
Rest(op, self, sel, x) ==
    IF op = "voltage_to_temperature"
    THEN Unscaled(self, sel, Key(op, x), NoFunction)
    ELSE Scaled(self, sel, x, self._microvolt_expo_function)

ThreadInit ==
    /\ tc = TYPE_B
    /\ call = Idle
    /\ outcome = NoOutcome
    /\ registry = THERMOCOUPLE_TYPES
    /\ threads = NoThreads
    /\ calls = <<>>

Begin(t) ==
    /\ threads[t].pc = "idle"
    /\ \E op \in ThreadOps, code \in ThreadCodes :
        \E x \in ThreadArgs(op) :
            threads' = [threads EXCEPT ![t] = Frame("get_thermocouple", op, code, x, "", NoSelection, NoOutcome)]
    /\ UNCHANGED <<tc, call, outcome, registry, calls>>

(* Lookup that enters a code it does not find as another key of type B *)
LookupRegistering(t) ==
    /\ threads[t].pc = "get_thermocouple"
    /\ LET o == get_thermocouple(registry, threads[t].code)
           u == upper(threads[t].code)
       IN  /\ threads' = [threads EXCEPT ![t] =
                    IF Raised(o)
                    THEN [@ EXCEPT !.pc = "done", !.result = o]
                    ELSE [@ EXCEPT !.pc = "_select_coeffs", !.self = o.name]]
           /\ registry' = IF Raised(o) /\ Len(u) = 1
                          THEN [k \in DOMAIN registry \cup {u[1]} |-> IF k \in DOMAIN registry THEN registry[k] ELSE TYPE_B]
                          ELSE registry
    /\ UNCHANGED <<tc, call, outcome, calls>>

(* tc = get_thermocouple(tc_type) *)
Lookup(t) ==
    /\ threads[t].pc = "get_thermocouple"
    /\ LET o == get_thermocouple(registry, threads[t].code)
       IN  threads' = [threads EXCEPT ![t] =
                IF Raised(o)
                THEN [@ EXCEPT !.pc = "done", !.result = o]
                ELSE [@ EXCEPT !.pc = "_select_coeffs", !.self = o.name]]
    /\ UNCHANGED <<tc, call, outcome, registry, calls>>

(* what _select_coeffs gives the thread, on the object as it is now *)
Selection(frame, self) == _select_coeffs(self, Key(frame.op, frame.x), TableOf(frame.op, self))

(* Select with the coefficients kept in the object, where every thread in  *)
(* a method of that object reads them                                      *)
SelectShared(t) ==
    /\ threads[t].pc = "_select_coeffs"
    /\ LET sel == Selection(threads[t], registry[threads[t].self])
       IN  threads' = [u \in ThreadIds |->
                IF u = t
                THEN IF sel.raised
                     THEN [threads[u] EXCEPT !.pc = "done", !.result = sel.exc]
                     ELSE [threads[u] EXCEPT !.pc = "_polyval", !.sel = sel]
                ELSE IF ~sel.raised /\ threads[u].pc = "_polyval" /\ threads[u].self = threads[t].self
                     THEN [threads[u] EXCEPT !.sel = sel]
                     ELSE threads[u]]
    /\ UNCHANGED <<tc, call, outcome, registry, calls>>

(* coeffs = self._select_coeffs(x, table): the exception leaves the method *)
(* and the function                                                        *)
Select(t) ==
    /\ threads[t].pc = "_select_coeffs"
    /\ LET sel == Selection(threads[t], registry[threads[t].self])
       IN  threads' = [threads EXCEPT ![t] =
                IF sel.raised
                THEN [@ EXCEPT !.pc = "done", !.result = sel.exc]
                ELSE [@ EXCEPT !.pc = "_polyval", !.sel = sel]]
    /\ UNCHANGED <<tc, call, outcome, registry, calls>>

(* result = self._polyval(coeffs, x), the correction, the scaling, return *)
Polyval(t) ==
    /\ threads[t].pc = "_polyval"
    /\ LET frame == threads[t]
       IN  threads' = [threads EXCEPT ![t] =
                [@ EXCEPT !.pc = "done", !.result = Rest(frame.op, registry[frame.self], frame.sel, frame.x)]]
    /\ UNCHANGED <<tc, call, outcome, registry, calls>>

(* the caller is done with the outcome *)
Return(t) ==
    /\ threads[t].pc = "done"
    /\ threads' = [threads EXCEPT ![t] = IdleFrame]
    /\ UNCHANGED <<tc, call, outcome, registry, calls>>

ThreadNext ==
    \E t \in ThreadIds :
        \/ Begin(t)
        \/ Lookup(t)
        \/ Select(t)
        \/ Polyval(t)
        \/ Return(t)

Concurrent == ThreadInit /\ [][ThreadNext]_vars

---------------------------------------------------------------------------
(* A caller of the functions of registry.py that take the type code, after *)
(* the module has been imported.  The types whose tables are not in the    *)
(* source tree are left out of the codes it passes.                        *)

FunctionCodes == { code \in CodeInputs : InRegistry(THERMOCOUPLE_TYPES, upper(code)) => Known(THERMOCOUPLE_TYPES[upper(code)[1]]) }

RegistryTemperatureToVoltage ==
    /\ call = Idle
    /\ \E code \in FunctionCodes, t \in Temps :
        /\ call' = [op |-> "registry.temperature_to_voltage", x |-> t, y |-> Zero, str |-> code]
        /\ outcome' = registry_temperature_to_voltage(registry, code, t)
        /\ calls' = FunctionCalls(registry, code, "temperature_to_voltage", t, Zero)
    /\ UNCHANGED <<tc, registry, threads>>

RegistryVoltageToTemperature ==
    /\ call = Idle
    /\ \E code \in FunctionCodes, v \in Volts :
        /\ call' = [op |-> "registry.voltage_to_temperature", x |-> v, y |-> Zero, str |-> code]
        /\ outcome' = registry_voltage_to_temperature(registry, code, v)
        /\ calls' = FunctionCalls(registry, code, "voltage_to_temperature", v, Zero)
    /\ UNCHANGED <<tc, registry, threads>>

RegistryVoltageToTemperatureWithReference ==
    /\ call = Idle
    /\ \E code \in FunctionCodes, v \in MeasuredVolts, t \in Temps :
        /\ call' = [op |-> "registry.voltage_to_temperature_with_reference", x |-> v, y |-> t, str |-> code]
        /\ outcome' = registry_voltage_to_temperature_with_reference(registry, code, v, t)
        /\ calls' = FunctionCalls(registry, code, "voltage_to_temperature_with_reference", v, t)
    /\ UNCHANGED <<tc, registry, threads>>

TempToSeebeck ==
    /\ call = Idle
    /\ \E code \in FunctionCodes, t \in Temps :
        /\ call' = [op |-> "registry.temp_to_seebeck", x |-> t, y |-> Zero, str |-> code]
        /\ outcome' = temp_to_seebeck(registry, code, t)
        /\ calls' = FunctionCalls(registry, code, "temperature_to_seebeck", t, Zero)
    /\ UNCHANGED <<tc, registry, threads>>

TempToDsdt ==
    /\ call = Idle
    /\ \E code \in FunctionCodes, t \in Temps :
        /\ call' = [op |-> "registry.temp_to_dsdt", x |-> t, y |-> Zero, str |-> code]
        /\ outcome' = temp_to_dsdt(registry, code, t)
        /\ calls' = FunctionCalls(registry, code, "temperature_to_dsdt", t, Zero)
    /\ UNCHANGED <<tc, registry, threads>>

FunctionsNext ==
    \/ RegistryTemperatureToVoltage
    \/ RegistryVoltageToTemperature
    \/ RegistryVoltageToTemperatureWithReference
    \/ TempToSeebeck
    \/ TempToDsdt
    \/ Discard

Functions == ThreadInit /\ [][FunctionsNext]_vars

---------------------------------------------------------------------------
(* Properties.                                                             *)
(*                                                                         *)
(* The reference evaluation below works on the tables of the instances     *)
(* named "G", whose bounds and coefficients are integers <<n, 0>>, on      *)
(* integer inputs, in plain integer arithmetic.                            *)

Generic(self) == self._name = "G"

IntContains(entry, n) == entry[1][1][1] <= n /\ n <= entry[1][2][1]

(* the positions of the entries whose closed interval contains n *)
Containing(table, n) == { k \in 1..Len(table) : IntContains(table[k], n) }

First(S) == CHOOSE k \in S : \A j \in S : k <= j

RECURSIVE IntPower(_, _)
IntPower(n, i) == IF i = 0 THEN 1 ELSE n * IntPower(n, i - 1)

(* sum over i of c_i * n^i, c_i the (i+1)-th coefficient *)
RECURSIVE PowerSumFrom(_, _, _)
PowerSumFrom(coeffs, n, k) ==
    IF k > Len(coeffs) THEN 0
    ELSE coeffs[k][1] * IntPower(n, k - 1) + PowerSumFrom(coeffs, n, k + 1)

(* the polynomial of the first entry of the table that contains n, at n *)
FirstEntryValue(table, n) == PowerSumFrom(table[First(Containing(table, n))][2], n, 1)

(* C1: on every table, the evaluator uses the first entry in declared      *)
(* order whose closed interval lo <= x <= hi contains x, and returns the   *)
(* sum of c_i * x^i over that entry's coefficients (index = power); a      *)
(* later entry is never used when an earlier one contains x.  Stated on    *)
(* the operations that return the table's value as it is: the inverse      *)
(* conversion at n microvolts and the two Seebeck leg operations at n      *)
(* degrees.                                                                *)
C1_FirstEntryPowerSum ==
    /\ (Generic(tc) /\ call.op = "voltage_to_temperature")
       => \A n \in MicroInputs :
            ( /\ call = CallT("voltage_to_temperature", Lit(n, -6))
              /\ Containing(tc._microvolt_to_temp.v, n) # {} )
            => outcome = Value(Int2Dec(FirstEntryValue(tc._microvolt_to_temp.v, n)))
    /\ (Generic(tc) /\ call.op = "temperature_to_seebeck_pos_leg")
       => \A n \in TempInputs :
            ( /\ call = CallT("temperature_to_seebeck_pos_leg", Int2Dec(n))
              /\ Containing(tc._temp_to_seebeck_pos_leg.v, n) # {} )
            => outcome = Value(Int2Dec(FirstEntryValue(tc._temp_to_seebeck_pos_leg.v, n)))
    /\ (Generic(tc) /\ call.op = "temperature_to_seebeck_neg_leg")
       => \A n \in TempInputs :
            ( /\ call = CallT("temperature_to_seebeck_neg_leg", Int2Dec(n))
              /\ Containing(tc._temp_to_seebeck_neg_leg.v, n) # {} )
            => outcome = Value(Int2Dec(FirstEntryValue(tc._temp_to_seebeck_neg_leg.v, n)))

(* two entries of different coefficients contain the input, and the call   *)
(* returned the value of the first, which the second does not give         *)
C1_Witness ==
    \E n \in MicroInputs :
        /\ Generic(tc)
        /\ call = CallT("voltage_to_temperature", Lit(n, -6))
        /\ Containing(tc._microvolt_to_temp.v, n) = {1, 2}
        /\ Len(tc._microvolt_to_temp.v[1][2]) = 3
        /\ outcome = Value(Int2Dec(FirstEntryValue(tc._microvolt_to_temp.v, n)))
        /\ outcome # Value(Int2Dec(PowerSumFrom(tc._microvolt_to_temp.v[2][2], n, 1)))

(* the operations that evaluate a table at their argument, with the field  *)
(* that holds the table                                                    *)
TableOps ==
    [ temperature_to_voltage |-> "_temp_to_microvolt",
      voltage_to_temperature |-> "_microvolt_to_temp",
      temperature_to_seebeck |-> "_temp_to_seebeck",
      temperature_to_dsdt |-> "_temp_to_dsdt",
      temperature_to_volt_pos_leg |-> "_temp_to_microvolt_pos_leg",
      temperature_to_volt_neg_leg |-> "_temp_to_microvolt_neg_leg",
      temperature_to_seebeck_pos_leg |-> "_temp_to_seebeck_pos_leg",
      temperature_to_seebeck_neg_leg |-> "_temp_to_seebeck_neg_leg" ]

OptionalOps == DOMAIN TableOps \ { "temperature_to_voltage", "voltage_to_temperature" }

(* the table is there: a list with an entry *)
Present(table) == table.py = "list" /\ Len(table.v) > 0

(* x is strictly below the lowest lo, or strictly above the highest hi *)
Below(table, x) == \A k \in 1..Len(table) : DecLt(x, Lo(table[k]))

Above(table, x) == \A k \in 1..Len(table) : DecLt(Hi(table[k]), x)

(* the value the called operation looks up in its table: the argument, in  *)
(* degrees, or the argument of n microvolts written in volts as the number *)
(* n                                                                       *)
LookedUp(c) ==
    IF c.op = "voltage_to_temperature"
    THEN Int2Dec(CHOOSE n \in MicroInputs : c.x = Lit(n, -6))
    ELSE c.x

(* C2: for every operation and every table, an input strictly below the    *)
(* lowest declared lo or strictly above the highest declared hi raises the *)
(* out-of-range error, which carries the input as it is: no value is       *)
(* returned, the input is not clamped, no polynomial is extrapolated.      *)
C2_OutOfRangeSignalled ==
    \A op \in DOMAIN TableOps :
        ( /\ call.op = op
          /\ Present(tc[TableOps[op]])
          /\ \/ Below(tc[TableOps[op]].v, LookedUp(call))
             \/ Above(tc[TableOps[op]].v, LookedUp(call)) )
        => outcome = OutOfRangeError(LookedUp(call), tc._name)

(* type T called above the highest bound of its forward table, 400 *)
C2_Witness ==
    /\ tc = TYPE_T
    /\ call = CallT("temperature_to_voltage", Int2Dec(500))
    /\ Above(tc._temp_to_microvolt.v, call.x)
    /\ outcome = OutOfRangeError(Int2Dec(500), "T")

(* C3: for every model, measured voltage and reference temperature, the    *)
(* compensated conversion has the outcome, value or error, of the inverse  *)
(* conversion applied to the measured voltage plus the forward conversion  *)
(* of the reference temperature, both called on the same model.            *)
C3_ReferenceComposition ==
    call.op = "voltage_to_temperature_with_reference"
    => LET v_ref == temperature_to_voltage(tc, call.y)
       IN  IF Raised(v_ref) THEN outcome = v_ref
           ELSE outcome = voltage_to_temperature(tc, DecAdd(call.x, v_ref.val))

(* a measured voltage and a reference voltage, neither zero, gave a        *)
(* temperature that the measured voltage alone does not give               *)
C3_Witness ==
    /\ call.op = "voltage_to_temperature_with_reference"
    /\ call.x # Zero
    /\ temperature_to_voltage(tc, call.y).kind = "value"
    /\ temperature_to_voltage(tc, call.y).val # Zero
    /\ outcome.kind = "value"
    /\ outcome # voltage_to_temperature(tc, call.x)

(* the stage of the compensated conversion that rejects its input *)
RejectedBy(self, v_measured, t_ref) ==
    IF Raised(temperature_to_voltage(self, t_ref)) THEN "forward" ELSE "inverse"

(* C4: when the compensated conversion fails with the out-of-range error,  *)
(* the error tells the caller which table rejected the input, the forward  *)
(* table (the reference temperature) or the inverse table (the summed      *)
(* voltage): no failure of the other stage, on the same model, gives the   *)
(* same error.                                                             *)
C4_ErrorNamesTable ==
    ( /\ call.op = "voltage_to_temperature_with_reference"
      /\ outcome.kind = "ValueError" )
    => \A v \in MeasuredVolts, t \in Temps :
          voltage_to_temperature_with_reference(tc, v, t) = outcome
          => RejectedBy(tc, v, t) = RejectedBy(tc, call.x, call.y)

(* the models the registry holds whose tables are in the source tree *)
RegistryModels == { THERMOCOUPLE_TYPES[c] : c \in { d \in DOMAIN THERMOCOUPLE_TYPES : Known(THERMOCOUPLE_TYPES[d]) } }

(* t is strictly inside the domain of the table: above its lowest lo and   *)
(* below its highest hi                                                    *)
StrictlyInside(table, t) ==
    /\ \E k \in 1..Len(table) : DecLt(Lo(table[k]), t)
    /\ \E k \in 1..Len(table) : DecLt(t, Hi(table[k]))

(* 0.5 degrees for types B, R and S, 0.1 degrees for the others *)
Tolerance(name) == IF name \in {"B", "R", "S"} THEN Lit(5, -1) ELSE Lit(1, -1)

Within(a, b, tol) == DecLe(DecAbs(DecSub(a, b)), tol)

(* C5: for every type of the registry and every T strictly inside the      *)
(* domain of its forward table, the forward conversion returns a voltage,  *)
(* the inverse conversion of that voltage returns a temperature (it does   *)
(* not fail with the out-of-range error), and that temperature is within   *)
(* 0.1 degrees of T, 0.5 degrees for types B, R and S.                     *)
C5_RoundTrip ==
    ( /\ call.op = "temperature_to_voltage"
      /\ tc \in RegistryModels
      /\ StrictlyInside(tc._temp_to_microvolt.v, call.x) )
    => /\ outcome.kind = "value"
       /\ voltage_to_temperature(tc, outcome.val).kind = "value"
       /\ Within(voltage_to_temperature(tc, outcome.val).val, call.x, Tolerance(tc._name))

(* C6: for each of the codes B, E, J, K, N, R, S, T, get_thermocouple      *)
(* returns a model, and reading the attribute name of that model gives the *)
(* code.                                                                   *)
C6_NameIsCode ==
    /\ ( /\ call.op = "get_thermocouple"
         /\ Len(call.str) = 1
         /\ call.str[1] \in {"B", "E", "J", "K", "N", "R", "S", "T"} )
       => (outcome.kind = "object" /\ tc = THERMOCOUPLE_TYPES[call.str[1]])
    /\ \A code \in {"B", "E", "J", "K", "N", "R", "S", "T"} :
          (tc = THERMOCOUPLE_TYPES[code] /\ call = CallStr("getattr", <<"name">>))
          => outcome = Str(code)

(* the optional table is absent from the instance: None or the empty list  *)
Absent(table) == table = None \/ table = List(<<>>)

(* C7: each of the six optional operations, called on a model constructed  *)
(* without its table (omitted, None or empty), raises the not-implemented  *)
(* error for that model, for every input: no other failure, no number.     *)
C7_AbsentUnsupported ==
    \A op \in OptionalOps :
        (call.op = op /\ Absent(tc[TableOps[op]]))
        => (outcome.kind = "NotImplementedError" /\ outcome.name = tc._name)

(* an instance with some optional tables and without the table of the      *)
(* Seebeck coefficient, asked for the Seebeck coefficient at a temperature *)
(* its other tables accept                                                 *)
C7_Witness ==
    /\ call = CallT("temperature_to_seebeck", Int2Dec(1))
    /\ Absent(tc._temp_to_seebeck)
    /\ Present(tc._temp_to_dsdt)
    /\ outcome.kind = "NotImplementedError"

(* C8: on a model without the table of the requested optional quantity,    *)
(* the call fails with the not-implemented error also for an input that    *)
(* the tables of the model reject (the absence is tested before any range  *)
(* is), and the kind of that error is not the kind of the out-of-range     *)
(* error the model raises for that input.                                  *)
C8_UnsupportedFirst ==
    \A op \in OptionalOps :
        ( /\ call.op = op
          /\ Absent(tc[TableOps[op]])
          /\ Raised(temperature_to_voltage(tc, call.x)) )
        => /\ outcome.kind = "NotImplementedError"
           /\ outcome.kind # temperature_to_voltage(tc, call.x).kind

(* the leg operation without its table, at 500 degrees, which the forward  *)
(* table and the tables that are there reject                              *)
C8_Witness ==
    /\ call = CallT("temperature_to_volt_neg_leg", Int2Dec(500))
    /\ Absent(tc._temp_to_microvolt_neg_leg)
    /\ Present(tc._temp_to_microvolt_pos_leg)
    /\ temperature_to_voltage(tc, call.x).kind = "ValueError"
    /\ temperature_to_volt_pos_leg(tc, call.x).kind = "ValueError"
    /\ outcome.kind = "NotImplementedError"

(* the correction lambda t: (j + 1) * t + 20 + j at the integer t, 0 for   *)
(* no function                                                             *)
CorrectionAt(function, t) ==
    IF function = NoFunction THEN 0
    ELSE LET j == CHOOSE i \in 1..4 : function = GenFunction(i)
         IN  (j + 1) * t + 20 + j

---------------------------------------------------------------------------
(* The registry.                                                           *)

Codes == { "B", "E", "J", "K", "N", "R", "S", "T" }

LowerCase == [ B |-> "b", E |-> "e", J |-> "j", K |-> "k", N |-> "n", R |-> "r", S |-> "s", T |-> "t" ]

(* the string is the one-letter code c in upper or in lower case *)
Spells(str, c) == str = <<c>> \/ str = <<LowerCase[c]>>

(* the message lists every code after "Available types:" *)
ListsAllCodes(list) ==
    \E m \in DOMAIN list :
        /\ list[m] = "Available types:"
        /\ \A c \in Codes : \E i \in (m + 1)..Len(list) : list[i] = c

(* C11: get_thermocouple(code) returns the model registered for the letter *)
(* that code spells in either case, the same model for both spellings, and *)
(* for every other string raises the ValueError "not supported" whose      *)
(* message lists the eight codes.                                          *)
C11_RegistryLookup ==
    call.op = "get_thermocouple" =>
        IF \E c \in Codes : Spells(call.str, c)
        THEN \A c \in Codes : Spells(call.str, c) =>
                /\ outcome = Object("ThermocoupleType", c)
                /\ tc = THERMOCOUPLE_TYPES[c]
        ELSE /\ outcome.kind = "ValueError"
             /\ outcome.what = "not supported"
             /\ ListsAllCodes(outcome.list)

C11_Witness ==
    /\ call.op = "get_thermocouple"
    /\ call.str = <<"k">>
    /\ outcome = Object("ThermocoupleType", "K")
    /\ tc = TYPE_K

---------------------------------------------------------------------------
(* Boundary ties.                                                          *)

(* the outcome of the table operation named op on self *)
Apply(op, self, x) ==
    CASE op = "temperature_to_voltage" -> temperature_to_voltage(self, x)
      [] op = "voltage_to_temperature" -> voltage_to_temperature(self, x)
      [] op = "temperature_to_seebeck" -> temperature_to_seebeck(self, x)
      [] op = "temperature_to_dsdt" -> temperature_to_dsdt(self, x)
      [] op = "temperature_to_volt_pos_leg" -> temperature_to_volt_pos_leg(self, x)
      [] op = "temperature_to_volt_neg_leg" -> temperature_to_volt_neg_leg(self, x)
      [] op = "temperature_to_seebeck_pos_leg" -> temperature_to_seebeck_pos_leg(self, x)
      [] op = "temperature_to_seebeck_neg_leg" -> temperature_to_seebeck_neg_leg(self, x)

(* the positions of the entries that have x as a bound *)
EndsAt(table, x) == { k \in 1..Len(table) : Lo(table[k]) = x \/ Hi(table[k]) = x }

(* two entries of the table share the bound x *)
Tie(table, x) == \E i, j \in EndsAt(table, x) : i # j

(* self with the table of the field reduced to its k-th entry *)
OnlyEntry(self, field, k) == [self EXCEPT ![field] = List(<<self[field].v[k]>>)]

(* C12: an input exactly on a bound that two entries of the table share    *)
(* gives what the first declared of these entries alone gives, in either   *)
(* order of the intervals and for every magnitude of the input.            *)
C12_BoundaryTies ==
    \A op \in DOMAIN TableOps :
        ( /\ call.op = op
          /\ Present(tc[TableOps[op]])
          /\ Tie(tc[TableOps[op]].v, LookedUp(call)) )
        => outcome = Apply(op, OnlyEntry(tc, TableOps[op], First(EndsAt(tc[TableOps[op]].v, LookedUp(call)))), call.x)

(* type B at 630.615, the bound its two forward intervals share: the value *)
(* is that of the first entry, which the second entry does not give        *)
C12_Witness ==
    /\ tc = TYPE_B
    /\ call = CallT("temperature_to_voltage", Lit(630615, -3))
    /\ EndsAt(tc._temp_to_microvolt.v, call.x) = {1, 2}
    /\ outcome.kind = "value"
    /\ outcome = temperature_to_voltage(OnlyEntry(tc, "_temp_to_microvolt", 1), call.x)
    /\ outcome # temperature_to_voltage(OnlyEntry(tc, "_temp_to_microvolt", 2), call.x)

---------------------------------------------------------------------------
(* What the operations leave alone.                                        *)

(* C13: no operation, whether it returns or raises ValueError or           *)
(* NotImplementedError, changes the instance it is called on or the        *)
(* module's dictionary, which stays as constructed: the caller's instance  *)
(* changes only when get_thermocouple returns, to the dictionary's entry;  *)
(* an operation that raises gives no value.                                *)
C13_Immutable ==
    [][ /\ registry = THERMOCOUPLE_TYPES
        /\ registry' = registry
        /\ tc' # tc =>
              /\ call'.op = "get_thermocouple"
              /\ outcome'.kind = "object"
              /\ tc' = THERMOCOUPLE_TYPES[outcome'.name]
        /\ Raised(outcome') => tc' = tc /\ outcome'.kind \notin {"value", "object", "str"}
      ]_vars

(* an optional operation has raised NotImplementedError on a constructed   *)
(* instance, which is still one of those the constructor built             *)
C13_Witness ==
    /\ call.op = "temperature_to_volt_pos_leg"
    /\ outcome.kind = "NotImplementedError"
    /\ tc._temp_to_microvolt_pos_leg = None
    /\ Generic(tc)
    /\ tc \in Models
    /\ registry = THERMOCOUPLE_TYPES

(* the outcome of the function of registry.py called alone, on the         *)
(* dictionary as constructed                                               *)
Alone(frame) ==
    LET o == get_thermocouple(THERMOCOUPLE_TYPES, frame.code)
    IN  IF Raised(o) THEN o ELSE Apply(frame.op, THERMOCOUPLE_TYPES[o.name], frame.x)

SameInvocation(f, g) == f.op = g.op /\ upper(f.code) = upper(g.code) /\ f.x = g.x

(* C14: two invocations of a function with the same model and input have   *)
(* the same outcome, whatever ran between the first and the second; one    *)
(* that raised raises the same error again.                                *)
C14_Determinism ==
    \A t, u \in ThreadIds :
        ( /\ threads[t].pc = "done"
          /\ threads[u].pc = "done"
          /\ SameInvocation(threads[t], threads[u]) )
        => threads[t].result = threads[u].result

(* type B called twice at -1 microvolt, below its inverse table: both      *)
(* calls raised the same error                                             *)
C14_Witness ==
    /\ threads[1].pc = "done"
    /\ threads[2].pc = "done"
    /\ threads[1].op = "voltage_to_temperature"
    /\ threads[1].code = <<"B">>
    /\ SameInvocation(threads[1], threads[2])
    /\ threads[1].result.kind = "ValueError"
    /\ threads[2].result.kind = "ValueError"

(* C15: under every interleaving of the threads' steps, a call that is     *)
(* done has the outcome it has when run alone, and no step writes the      *)
(* dictionary or its models.                                               *)
C15_ConcurrentReads ==
    [][ /\ registry' = registry
        /\ \A t \in ThreadIds :
              threads'[t].pc = "done" => threads'[t].result = Alone(threads'[t])
      ]_vars

(* one thread is done with a value for type B while the other is inside    *)
(* the same method of the same model with another input                    *)
C15_Witness ==
    /\ threads[1].pc = "done"
    /\ threads[1].result.kind = "value"
    /\ threads[1].result = Alone(threads[1])
    /\ threads[2].pc = "_polyval"
    /\ threads[2].self = threads[1].self
    /\ threads[2].op = threads[1].op
    /\ threads[2].x # threads[1].x

---------------------------------------------------------------------------
(* The correction functions.                                               *)

CorrectionFields == { "_microvolt_expo_function", "_seebeck_expo_function", "_dsdt_expo_function", "_microvolt_neg_leg_expo_function" }

(* the field of the correction that belongs to the operation, if any *)
OwnCorrection(op) ==
    CASE op = "temperature_to_voltage" -> { "_microvolt_expo_function" }
      [] op = "temperature_to_seebeck" -> { "_seebeck_expo_function" }
      [] op = "temperature_to_dsdt" -> { "_dsdt_expo_function" }
      [] op = "temperature_to_volt_neg_leg" -> { "_microvolt_neg_leg_expo_function" }
      [] OTHER -> {}

(* self with no function in the fields *)
Without(self, fields) == [f \in DOMAIN self |-> IF f \in fields THEN NoFunction ELSE self[f]]

(* the power of ten by which the operation scales: volts from microvolts *)
ScaleOf(op) == IF op \in { "temperature_to_voltage", "temperature_to_volt_neg_leg", "temperature_to_volt_pos_leg" } THEN -6 ELSE 0

(* the outcome of the call c on self *)
Invoke(c, self) ==
    IF c.op = "voltage_to_temperature_with_reference"
    THEN voltage_to_temperature_with_reference(self, c.x, c.y)
    ELSE Apply(c.op, self, c.x)

Operations == DOMAIN TableOps \cup { "voltage_to_temperature_with_reference" }

(* the corrections the outcome of the operation depends on: its own, and   *)
(* for the compensated conversion that of the forward conversion it calls  *)
AffectedBy(op) ==
    IF op = "voltage_to_temperature_with_reference"
    THEN { "_microvolt_expo_function" }
    ELSE OwnCorrection(op)

(* the own correction adds its value at the input T as given to what the   *)
(* model without corrections returns (for the voltages, a millionth of it) *)
AddedAtRawInput ==
    \A op \in DOMAIN TableOps :
        (Generic(tc) /\ call.op = op)
        => \A f \in OwnCorrection(op), n \in TempInputs :
             (call.x = Int2Dec(n) /\ outcome.kind = "value")
             => outcome.val = DecAdd(Apply(op, Without(tc, CorrectionFields), call.x).val, Lit(CorrectionAt(tc[f], n), ScaleOf(op)))

(* C16 as stated: every correction affects exactly one operation, the      *)
(* forward correction only temperature_to_voltage, so the outcome of every *)
(* operation is what the model gives with every correction but the         *)
(* operation's own removed (all of them for an operation that has none);   *)
(* the own correction is evaluated at the raw input T.                     *)
C16_ExactlyOneOperation ==
    /\ \A op \in Operations :
          (Generic(tc) /\ call.op = op)
          => outcome = Invoke(call, Without(tc, CorrectionFields \ OwnCorrection(op)))
    /\ AddedAtRawInput

(* C16, amended: the outcome of an operation is what the model gives with  *)
(* every correction removed but the operation's own, and for the           *)
(* compensated conversion but the forward correction, which reaches it     *)
(* through temperature_to_voltage; without its correction an operation     *)
(* returns what the polynomial alone gives, and the own correction is      *)
(* evaluated at the raw input T.                                           *)
C16_CorrectionIsolation ==
    /\ \A op \in Operations :
          (Generic(tc) /\ call.op = op)
          => outcome = Invoke(call, Without(tc, CorrectionFields \ AffectedBy(op)))
    /\ AddedAtRawInput

(* the four corrections are attached: the Seebeck operation has returned   *)
(* a value that its own correction changed and the other three did not     *)
C16_Witness ==
    /\ Generic(tc)
    /\ \A f \in CorrectionFields : tc[f] # NoFunction
    /\ call = CallT("temperature_to_seebeck", Int2Dec(1))
    /\ outcome.kind = "value"
    /\ outcome # temperature_to_seebeck(Without(tc, CorrectionFields), call.x)
    /\ outcome = temperature_to_seebeck(Without(tc, CorrectionFields \ { "_seebeck_expo_function" }), call.x)

---------------------------------------------------------------------------
(* The optional operations on the constructed models: the value against    *)
(* the integer reference evaluation of the operation's own table.          *)

(* C17: temperature_to_seebeck and temperature_to_dsdt at T, the table     *)
(* being there and containing T, return the polynomial at T of the first   *)
(* containing entry of their own table, plus the value at T of their own   *)
(* correction when attached, as it is: not divided or multiplied.          *)
C17_SeebeckAndDsdt ==
    /\ (Generic(tc) /\ call.op = "temperature_to_seebeck")
       => \A n \in TempInputs :
            ( /\ call = CallT("temperature_to_seebeck", Int2Dec(n))
              /\ Containing(tc._temp_to_seebeck.v, n) # {} )
            => outcome = Value(Int2Dec(FirstEntryValue(tc._temp_to_seebeck.v, n) + CorrectionAt(tc._seebeck_expo_function, n)))
    /\ (Generic(tc) /\ call.op = "temperature_to_dsdt")
       => \A n \in TempInputs :
            ( /\ call = CallT("temperature_to_dsdt", Int2Dec(n))
              /\ Containing(tc._temp_to_dsdt.v, n) # {} )
            => outcome = Value(Int2Dec(FirstEntryValue(tc._temp_to_dsdt.v, n) + CorrectionAt(tc._dsdt_expo_function, n)))

(* temperature_to_dsdt has returned a value on a model with the four       *)
(* corrections, at a T that both entries of its table contain              *)
C17_Witness ==
    /\ Generic(tc)
    /\ \A f \in CorrectionFields : tc[f] # NoFunction
    /\ call = CallT("temperature_to_dsdt", Int2Dec(1))
    /\ Containing(tc._temp_to_dsdt.v, 1) = {1, 2}
    /\ tc._temp_to_dsdt # tc._temp_to_seebeck
    /\ outcome.kind = "value"

(* C19: temperature_to_volt_pos_leg at T returns the polynomial at T of    *)
(* the first containing entry of the positive-leg voltage table divided by *)
(* 1,000,000, whatever corrections the model has;                          *)
(* temperature_to_volt_neg_leg returns that of the negative-leg voltage    *)
(* table plus the negative-leg correction at T when attached, the sum      *)
(* divided by 1,000,000.                                                   *)
C19_LegVoltage ==
    /\ ( /\ Generic(tc)
         /\ call.op = "temperature_to_volt_pos_leg"
         /\ Present(tc._temp_to_microvolt_pos_leg) )
       => \A n \in TempInputs :
            ( /\ call = CallT("temperature_to_volt_pos_leg", Int2Dec(n))
              /\ Containing(tc._temp_to_microvolt_pos_leg.v, n) # {} )
            => outcome = Value(Lit(FirstEntryValue(tc._temp_to_microvolt_pos_leg.v, n), -6))
    /\ ( /\ Generic(tc)
         /\ call.op = "temperature_to_volt_neg_leg"
         /\ Present(tc._temp_to_microvolt_neg_leg) )
       => \A n \in TempInputs :
            ( /\ call = CallT("temperature_to_volt_neg_leg", Int2Dec(n))
              /\ Containing(tc._temp_to_microvolt_neg_leg.v, n) # {} )
            => outcome = Value(Lit(FirstEntryValue(tc._temp_to_microvolt_neg_leg.v, n) + CorrectionAt(tc._microvolt_neg_leg_expo_function, n), -6))

(* temperature_to_volt_neg_leg has returned a voltage on a model with the  *)
(* four corrections, whose two leg tables differ                           *)
C19_Witness ==
    /\ Generic(tc)
    /\ \A f \in CorrectionFields : tc[f] # NoFunction
    /\ call = CallT("temperature_to_volt_neg_leg", Int2Dec(2))
    /\ Present(tc._temp_to_microvolt_neg_leg)
    /\ tc._temp_to_microvolt_neg_leg # tc._temp_to_microvolt_pos_leg
    /\ outcome.kind = "value"

(* self with nothing but the table of the field: no other optional table   *)
(* and no correction                                                       *)
OnlyTable(self, field) ==
    [f \in DOMAIN self |->
        IF f \in { "_name", "_temp_to_microvolt", "_microvolt_to_temp", field } THEN self[f]
        ELSE IF f \in CorrectionFields THEN NoFunction
        ELSE None]

(* C20: temperature_to_seebeck_pos_leg and temperature_to_seebeck_neg_leg  *)
(* at T return the polynomial at T of the first containing entry of their  *)
(* own leg Seebeck table as it is, not scaled and not corrected: the same  *)
(* as on the model without any correction and any other optional table.    *)
C20_LegSeebeck ==
    \A op \in { "temperature_to_seebeck_pos_leg", "temperature_to_seebeck_neg_leg" } :
        (Generic(tc) /\ call.op = op /\ Present(tc[TableOps[op]]))
        => /\ outcome = Apply(op, OnlyTable(tc, TableOps[op]), call.x)
           /\ \A n \in TempInputs :
                 (call.x = Int2Dec(n) /\ Containing(tc[TableOps[op]].v, n) # {})
                 => outcome = Value(Int2Dec(FirstEntryValue(tc[TableOps[op]].v, n)))

(* temperature_to_seebeck_neg_leg has returned a value on a model with the *)
(* four corrections                                                        *)
C20_Witness ==
    /\ Generic(tc)
    /\ \A f \in CorrectionFields : tc[f] # NoFunction
    /\ call = CallT("temperature_to_seebeck_neg_leg", Int2Dec(1))
    /\ Present(tc._temp_to_seebeck_neg_leg)
    /\ tc._temp_to_seebeck_neg_leg # tc._temp_to_seebeck_pos_leg
    /\ outcome.kind = "value"

---------------------------------------------------------------------------
(* The unit of dSeebeck/dT on the reference tables.                        *)

(* sum over i >= 1 of i * c_i * x^(i-1): the derivative, term by term, of  *)
(* the polynomial of the coefficients                                      *)
RECURSIVE DerivativeFrom(_, _, _, _)
DerivativeFrom(coeffs, x, k, total) ==
    IF k > Len(coeffs) THEN total
    ELSE DerivativeFrom(coeffs, x, k + 1, DecAdd(total, DecMul(DecMul(Int2Dec(k - 1), Num(coeffs[k])), Power(x, k - 2))))

Derivative(coeffs, x) == DerivativeFrom(coeffs, x, 2, Zero)

(* a is b to within one hundredth of b *)
WithinHundredth(a, b) == DecLe(DecMul(Int2Dec(100), DecAbs(DecSub(a, b))), DecAbs(b))

(* C18: for every type of the registry, temperature_to_dsdt at T returns   *)
(* the derivative with respect to T of temperature_to_seebeck (microvolts  *)
(* per kelvin) in nanovolts per kelvin squared: 1000 times the term-wise   *)
(* derivative at T of the Seebeck polynomial of the interval of T, here to *)
(* within one percent.                                                     *)
C18_DsdtIsDerivative ==
    ( /\ call.op = "temperature_to_dsdt"
      /\ tc \in RegistryModels
      /\ outcome.kind = "value"
      /\ ~_select_coeffs(tc, call.x, tc._temp_to_seebeck).raised )
    => WithinHundredth(outcome.val, DecMul(Lit(1, 3), Derivative(_select_coeffs(tc, call.x, tc._temp_to_seebeck).coeffs, call.x)))

---------------------------------------------------------------------------
(* The functions of registry.py.                                           *)

FunctionOps == { "registry.temperature_to_voltage", "registry.voltage_to_temperature", "registry.voltage_to_temperature_with_reference", "registry.temp_to_seebeck", "registry.temp_to_dsdt" }

(* the outcome of the method the function c.op is for, on self *)
MethodOutcome(c, self) ==
    CASE c.op = "registry.temperature_to_voltage" -> temperature_to_voltage(self, c.x)
      [] c.op = "registry.voltage_to_temperature" -> voltage_to_temperature(self, c.x)
      [] c.op = "registry.voltage_to_temperature_with_reference" -> voltage_to_temperature_with_reference(self, c.x, c.y)
      [] c.op = "registry.temp_to_seebeck" -> temperature_to_seebeck(self, c.x)
      [] c.op = "registry.temp_to_dsdt" -> temperature_to_dsdt(self, c.x)

(* C21: each of the five functions of registry.py has exactly the outcome  *)
(* of the corresponding method on the model get_thermocouple gives for the *)
(* code; for a code that is not registered it raises the ValueError "not   *)
(* supported" of get_thermocouple, whatever the other arguments are, and   *)
(* before any table is looked at: the function has called nothing else.    *)
C21_ConvenienceFunctions ==
    call.op \in FunctionOps =>
        IF \E c \in Codes : Spells(call.str, c)
        THEN \A c \in Codes : Spells(call.str, c) => outcome = MethodOutcome(call, THERMOCOUPLE_TYPES[c])
        ELSE /\ outcome.kind = "ValueError"
             /\ outcome.what = "not supported"
             /\ outcome = get_thermocouple(THERMOCOUPLE_TYPES, call.str)
             /\ calls = <<>>

(* temp_to_dsdt('t', 25) gives what the method gives on type T, which is   *)
(* not what temperature_to_seebeck gives there                             *)
C21_Witness ==
    /\ call.op = "registry.temp_to_dsdt"
    /\ call.str = <<"t">>
    /\ call.x = Int2Dec(25)
    /\ outcome.kind = "value"
    /\ outcome = temperature_to_dsdt(TYPE_T, call.x)
    /\ outcome # temperature_to_seebeck(TYPE_T, call.x)

---------------------------------------------------------------------------
(* The reference leg of types R and S.                                     *)

NegLegOps == { "temperature_to_volt_neg_leg", "temperature_to_seebeck_neg_leg" }

(* the table is one entry on [-50, 1768.1] whose only coefficient is 0 *)
ZeroOnPlatinumRange(table) ==
    /\ Present(table)
    /\ Len(table.v) = 1
    /\ Lo(table.v[1]) = Int2Dec(-50)
    /\ Hi(table.v[1]) = Lit(17681, -1)
    /\ Len(Coeffs(table.v[1])) = 1
    /\ Num(Coeffs(table.v[1])[1]) = Zero

C22_WitnessOutside ==
    /\ call.op = "temperature_to_seebeck_neg_leg"
    /\ tc = TYPE_R
    /\ call.x = Int2Dec(2000)
    /\ outcome.kind = "ValueError"
    /\ outcome.what = "out of range"

---------------------------------------------------------------------------
(* The declared tables of the types of the registry.                       *)

(* the fields of a model that hold a table *)
TableFields == { TableOps[op] : op \in DOMAIN TableOps }

(* the entries of the table in the field, none for a table not given *)
EntriesOf(self, field) == IF Present(self[field]) THEN self[field].v ELSE <<>>

DecMax(a, b) == IF DecLe(a, b) THEN b ELSE a

DecMin(a, b) == IF DecLe(a, b) THEN a ELSE b

(* the intervals of two entries have more than one point in common *)
Overlap(a, b) == DecLt(DecMax(Lo(a), Lo(b)), DecMin(Hi(a), Hi(b)))

(* C23: in every declared table of every type of the registry, the         *)
(* intervals of any two entries are disjoint or have exactly one point in  *)
(* common.                                                                 *)
C23_IntervalsDisjoint ==
    (call.op = "get_thermocouple" /\ tc \in RegistryModels) =>
        \A field \in TableFields :
            \A j, k \in DOMAIN EntriesOf(tc, field) :
                j # k => ~Overlap(EntriesOf(tc, field)[j], EntriesOf(tc, field)[k])

(* C24: every entry of every declared table of every type of the registry  *)
(* has lo <= hi.                                                           *)
C24_BoundsOrdered ==
    (call.op = "get_thermocouple" /\ tc \in RegistryModels) =>
        \A field \in TableFields :
            \A k \in DOMAIN EntriesOf(tc, field) :
                DecLe(Lo(EntriesOf(tc, field)[k]), Hi(EntriesOf(tc, field)[k]))

(* type T looked up: eight tables, each of two entries with lo < hi, the   *)
(* forward one on [-270, 0] and [0, 400]                                   *)
C24_Witness ==
    /\ call.op = "get_thermocouple"
    /\ tc = TYPE_T
    /\ outcome = Object("ThermocoupleType", "T")
    /\ \A field \in TableFields : Len(EntriesOf(tc, field)) = 2
    /\ Lo(tc._temp_to_microvolt.v[1]) = Int2Dec(-270)
    /\ Hi(tc._temp_to_microvolt.v[1]) = Zero
    /\ Hi(tc._temp_to_microvolt.v[2]) = Int2Dec(400)

(* the Seebeck tables that the source declares as the derivative of a      *)
(* voltage table, each with the field of that voltage table                *)
DerivedFrom ==
    [ _temp_to_seebeck |-> "_temp_to_microvolt",
      _temp_to_seebeck_pos_leg |-> "_temp_to_microvolt_pos_leg",
      _temp_to_seebeck_neg_leg |-> "_temp_to_microvolt_neg_leg" ]

(* coefficient i of the list, counted from 0; 0 past its end *)
CoefficientAt(coeffs, i) == IF i + 1 \in DOMAIN coeffs THEN Num(coeffs[i + 1]) ELSE Zero

(* entry s is the term-wise derivative of entry v: the same interval, and  *)
(* coefficient i equal to (i+1) times coefficient i+1 of v.  The numbers   *)
(* are compared to within one part in a hundred, which asks less than the  *)
(* equality of the claim.                                                  *)
DerivativeEntry(s, v) ==
    /\ Lo(s) = Lo(v)
    /\ Hi(s) = Hi(v)
    /\ \A i \in 0..(Len(Coeffs(s)) - 1) :
        WithinHundredth(CoefficientAt(Coeffs(s), i), DecMul(Int2Dec(i + 1), CoefficientAt(Coeffs(v), i + 1)))

(* C25: every Seebeck table and leg Seebeck table declared as the          *)
(* derivative of a voltage table has the intervals of that voltage table   *)
(* in the same order, and in each entry coefficient i is (i+1) times       *)
(* coefficient i+1 of the voltage table's entry.                           *)
C25_DerivedSeebeckTables ==
    (call.op = "get_thermocouple" /\ tc \in RegistryModels) =>
        \A field \in DOMAIN DerivedFrom :
            /\ Len(EntriesOf(tc, field)) = Len(EntriesOf(tc, DerivedFrom[field]))
            /\ \A k \in DOMAIN EntriesOf(tc, field) :
                DerivativeEntry(EntriesOf(tc, field)[k], EntriesOf(tc, DerivedFrom[field])[k])

(* Entry k of the table is the first match of no input: its lower bound    *)
(* lies in an earlier entry, and wherever an earlier entry ends inside it, *)
(* below its upper bound, another earlier entry goes on.                   *)
Dead(table, k) ==
    /\ \E j \in 1..(k - 1) : Contains(table[j], Lo(table[k]))
    /\ \A j \in 1..(k - 1) :
        (DecLe(Lo(table[k]), Hi(table[j])) /\ DecLt(Hi(table[j]), Hi(table[k]))) =>
            \E i \in 1..(k - 1) : DecLe(Lo(table[i]), Hi(table[j])) /\ DecLt(Hi(table[j]), Hi(table[i]))

(* C26: in every declared table of every type of the registry each entry   *)
(* is the first match of at least one input: no entry's interval is        *)
(* covered completely by the intervals of the entries declared before it.  *)
C26_NoDeadEntries ==
    (call.op = "get_thermocouple" /\ tc \in RegistryModels) =>
        \A field \in TableFields :
            \A k \in DOMAIN EntriesOf(tc, field) : ~Dead(EntriesOf(tc, field), k)

---------------------------------------------------------------------------
(* The domains of the leg tables.                                          *)

LegOps == { "temperature_to_volt_pos_leg", "temperature_to_volt_neg_leg", "temperature_to_seebeck_pos_leg", "temperature_to_seebeck_neg_leg" }

OutOfRange(o) == o.kind = "ValueError" /\ o.what = "out of range"

(* C27: for every type of the registry, every temperature at which         *)
(* temperature_to_voltage does not raise the out-of-range error is also    *)
(* accepted by the four leg operations of the same model.                  *)
C27_LegDomainCoverage ==
    (call.op = "temperature_to_voltage" /\ tc \in RegistryModels /\ ~OutOfRange(outcome)) =>
        \A op \in LegOps : ~OutOfRange(Apply(op, tc, call.x))

---------------------------------------------------------------------------
(* The kinds of the errors of the functions of registry.py.                *)

(* the error of the functions for a code that is not registered *)
UnknownType == get_thermocouple(THERMOCOUPLE_TYPES, <<"X">>)

(* C28: across the functions of registry.py, the error raised for a code   *)
(* that is not registered is of another kind (exception class) than the    *)
(* error raised for an input out of range and than the error raised for a  *)
(* quantity without table, so that the three are told apart without the    *)
(* message.                                                                *)
C28_ErrorKindsDistinct ==
    (call.op \in FunctionOps /\ Raised(outcome) /\ outcome.what # UnknownType.what) =>
        outcome.kind # UnknownType.kind

---------------------------------------------------------------------------
(* The reference junction at 0 degrees.                                    *)

(* the forward table has an entry for 0 degrees, the first such entry has  *)
(* the constant coefficient 0, and there is no forward correction          *)
ZeroAtZero(self) ==
    /\ Known(self)
    /\ ~TruthyFn(self._microvolt_expo_function)
    /\ LET sel == _select_coeffs(self, Zero, self._temp_to_microvolt)
       IN  /\ ~sel.raised
           /\ Len(sel.coeffs) > 0
           /\ Num(sel.coeffs[1]) = Zero

(* C29: on every model whose forward entry selected at 0 degrees has the   *)
(* constant coefficient 0 and which has no forward correction, among them  *)
(* types B, J, N, R, S and T, voltage_to_temperature_with_reference(V, 0)  *)
(* has the outcome of voltage_to_temperature(V): the same temperature or   *)
(* the same out-of-range error.                                            *)
C29_ZeroReferenceIdentity ==
    (call.op = "voltage_to_temperature_with_reference" /\ call.y = Zero) =>
        (ZeroAtZero(tc) => outcome = voltage_to_temperature(tc, call.x))

(* type T, 3 microvolts measured with the reference junction at 0 degrees: *)
(* a temperature, that of voltage_to_temperature for 3 microvolts; the six *)
(* types whose tables are known all have a forward table that is 0 at 0    *)
C29_Witness ==
    /\ call.op = "voltage_to_temperature_with_reference"
    /\ call.y = Zero
    /\ call.x = Lit(MaxMicro, -6)
    /\ tc = TYPE_T
    /\ \A self \in RegistryModels : ZeroAtZero(self)
    /\ outcome.kind = "value"
    /\ outcome = voltage_to_temperature(tc, call.x)

(* a constructed model with a forward table that is 0 at 0 degrees, where  *)
(* the measured voltage is rejected by the inverse table                   *)
C29_WitnessRejected ==
    /\ call.op = "voltage_to_temperature_with_reference"
    /\ call.y = Zero
    /\ Generic(tc)
    /\ ZeroAtZero(tc)
    /\ OutOfRange(outcome)
    /\ outcome = voltage_to_temperature(tc, call.x)

---------------------------------------------------------------------------
(* The order of evaluation.                                                *)

CorrectionFunctions == { "_microvolt_expo_function", "_seebeck_expo_function", "_dsdt_expo_function", "_microvolt_neg_leg_expo_function" }

(* the positions of the list at which a correction function is called *)
CorrectionsIn(list) == { i \in DOMAIN list : list[i].fn \in CorrectionFunctions }

(* the positions at which _select_coeffs is called, on any table *)
SelectionsIn(list) == { i \in DOMAIN list : list[i].fn = "_select_coeffs" }

C30_WitnessReference ==
    /\ call.op = "voltage_to_temperature_with_reference"
    /\ OutOfRange(outcome)
    /\ _select_coeffs(tc, call.y, tc._temp_to_microvolt).raised
    /\ ~Raised(voltage_to_temperature(tc, call.x))
    /\ calls = <<Invocation("_select_coeffs", "_temp_to_microvolt")>>

(* a correction function called, after the selection and the polynomial *)
C30_WitnessCorrected ==
    /\ call.op = "temperature_to_volt_neg_leg"
    /\ outcome.kind = "value"
    /\ calls = << Invocation("_select_coeffs", "_temp_to_microvolt_neg_leg"), Invocation("_polyval", "_temp_to_microvolt_neg_leg"), Invocation("_microvolt_neg_leg_expo_function", "") >>

====
